---- MODULE Spec2Model ----
(***************************************************************************)
(* Approval-Bot (src/src/index.js, latest iteration, lines 544-970): a     *)
(* Slack bot that turns a mention into a "Request approval" prompt, checks *)
(* the thread for a photo, posts an approval card to a central channel and *)
(* relays the approver's decision, plus an SLA question relay (askSla)     *)
(* that caches one assistant per vector store.                             *)
(*                                                                         *)
(* Every handler is an async function: one action of the model is one      *)
(* await (the call and its outcome) followed by the synchronous code up to *)
(* the next await.  Strings the code inspects (startsWith, toLowerCase,    *)
(* includes, regular expressions) are sequences of one-character strings.  *)
(***************************************************************************)
EXTENDS Integers, Sequences, FiniteSets, TLC

\* ------------------------------------------------------------------ bounds
MaxEvents   == 3   \* events delivered to the process in one run
MaxInFlight == 2   \* handlers suspended at an await at the same time
MaxFailures == 1   \* outbound calls that reject in one run
MaxChain    == 4   \* events of a run in which the platform accepts every call
MaxPolls    == 2   \* run-status polls one question may make
MaxStoreChanges == 1  \* times SLA_VECTOR_STORE_ID is changed while running
MaxQuestions == 2   \* questions put to askSla directly in one run
MaxMentions  == 1   \* mentions relayed to askSla in one run

\* ------------------------------------------------------------ string model
UPPER == <<"A","B","C","D","E","F","G","H","I","J","K","L","M","N","O","P","Q","R","S","T","U","V","W","X","Y","Z">>
LOWER == <<"a","b","c","d","e","f","g","h","i","j","k","l","m","n","o","p","q","r","s","t","u","v","w","x","y","z">>
DIGITS == {"0","1","2","3","4","5","6","7","8","9"}

Range(s) == { s[i] : i \in DOMAIN s }

LowerOf == [ c \in Range(UPPER) |-> LOWER[CHOOSE i \in DOMAIN UPPER : UPPER[i] = c] ]

\* String.prototype.toLowerCase, one character
LowerChar(c) == IF c \in DOMAIN LowerOf THEN LowerOf[c] ELSE c

\* String.prototype.toLowerCase
toLowerCase(s) == [ i \in DOMAIN s |-> LowerChar(s[i]) ]

\* String.prototype.startsWith
startsWith(s, prefix) ==
  /\ Len(s) >= Len(prefix)
  /\ SubSeq(s, 1, Len(prefix)) = prefix

\* positions at which needle occurs in s
Occurrences(s, needle) ==
  { i \in 1..(Len(s) - Len(needle) + 1) : SubSeq(s, i, i + Len(needle) - 1) = needle }

\* String.prototype.includes
includes(s, needle) == Occurrences(s, needle) # {}

Min(S) == CHOOSE x \in S : \A y \in S : x <= y

\* \s of a JavaScript regular expression (the characters the inputs use)
IsSpace(c) == c \in {" ", "\t", "\n"}

\* String.prototype.trim
trim(s) ==
  LET keep == { i \in DOMAIN s : ~IsSpace(s[i]) }
  IN IF keep = {} THEN <<>>
     ELSE SubSeq(s, Min(keep), CHOOSE x \in keep : \A y \in keep : y <= x)

\* text.replace(/<@[^>]+>/, ""): the leftmost "<@", one or more non-">", ">"
StripMention(s) ==
  LET starts == { i \in 1..Len(s) :
                    /\ i + 3 <= Len(s)
                    /\ s[i] = "<" /\ s[i+1] = "@"
                    /\ s[i+2] # ">"
                    /\ \E j \in (i+3)..Len(s) : s[j] = ">" }
  IN IF starts = {} THEN s
     ELSE LET i == Min(starts)
              j == Min({ k \in (i+3)..Len(s) : s[k] = ">" })
          IN SubSeq(s, 1, i - 1) \o SubSeq(s, j + 1, Len(s))

\* ------------------------------------------------------ text classifier
\* the character class [a-z0-9\-\s] under the i flag
InItemClass(c) ==
  \/ LowerChar(c) \in Range(LOWER)
  \/ c \in DIGITS
  \/ c = "-"
  \/ IsSpace(c)

\* first index >= from that holds no whitespace, Len(s)+1 if none: where \s+ ends
SpaceRunEnd(s, from) ==
  Min({ k \in from..(Len(s) + 1) : k = Len(s) + 1 \/ ~IsSpace(s[k]) })

\* first index >= from outside the class, Len(s)+1 if none: where [...]+ ends
ItemRunEnd(s, from) ==
  Min({ k \in from..(Len(s) + 1) : k = Len(s) + 1 \/ ~InItemClass(s[k]) })

REMOVE == <<"r","e","m","o","v","e">>
VANITY == <<"v","a","n","i","t","y">>
CABINET == <<"c","a","b","i","n","e","t">>

\* start of the capture group of /remove\s+([a-z0-9\-\s]+)/i for the
\* occurrence of "remove" at p, 0 if the pattern does not match there:
\* \s+ is greedy and gives back one space when no class character follows
GroupStart(s, p) ==
  LET w == p + Len(REMOVE)
      e == SpaceRunEnd(s, w)
  IN IF w > Len(s) \/ ~IsSpace(s[w]) THEN 0
     ELSE IF e <= Len(s) /\ InItemClass(s[e]) THEN e
     ELSE IF e - w >= 2 THEN e - 1
     ELSE 0

\* m[1] of text.match(/remove\s+([a-z0-9\-\s]+)/i), <<>> when there is no match
RemoveCapture(s) ==
  LET hits == { p \in Occurrences(toLowerCase(s), REMOVE) : GroupStart(s, p) # 0 }
  IN IF hits = {} THEN <<>>
     ELSE LET g == GroupStart(s, Min(hits))
          IN SubSeq(s, g, ItemRunEnd(s, g) - 1)

\* variant: the first iterations, return (m?.[1] || "item").trim()
parseItem_Earliest(text) ==
  LET m1 == RemoveCapture(text)
  IN trim(IF m1 # <<>> THEN m1 ELSE <<"i","t","e","m">>)

parseItem(text) ==
  LET m1 == RemoveCapture(text)
  IN IF m1 # <<>> THEN trim(m1)
     ELSE IF includes(toLowerCase(text), VANITY) THEN VANITY
     ELSE IF includes(toLowerCase(text), CABINET) THEN CABINET
     ELSE <<"i","t","e","m">>

PROMPT_WORDS ==
  { REMOVE, <<"d","e","m","o">>, VANITY, CABINET,
    <<"a","p","p","r","o","v","a","l">>, <<"a","p","p","r","o","v","e">> }

\* variant: the test of the first iterations,
\* /remove|demo|cabinet|vanity|tear.?out/i
PROMPT_RE_Earliest(text) ==
  LET low == toLowerCase(text)
      TEAR == <<"t","e","a","r">>
      OUT == <<"o","u","t">>
  IN \/ \E w \in {REMOVE, <<"d","e","m","o">>, CABINET, VANITY, TEAR \o OUT} : includes(low, w)
     \/ \E i \in Occurrences(low, TEAR) :
          /\ i + 7 <= Len(low)
          /\ low[i + 4] # "\n"
          /\ SubSeq(low, i + 5, i + 7) = OUT

\* PROMPT_RE.test(text)
PROMPT_RE(text) == \E w \in PROMPT_WORDS : includes(toLowerCase(text), w)

\* ------------------------------------------------------------- vocabulary
Users    == {"U1", "U2"}
Crew     == {"U1"}
JobChannels == {"C1", "C2"}
CENTRAL  == "CA"                 \* a value of APPROVAL_CHANNEL_ID
NoTs     == 0
NoUser   == ""
NoText   == [tmpl |-> "", item |-> <<>>, label |-> <<>>, arg |-> <<>>, body |-> <<>>]

\* a template literal of the source: its fixed wording and its ${...} holes
Text(tmpl, item, label, arg) ==
  [tmpl |-> tmpl, item |-> item, label |-> label, arg |-> arg, body |-> <<>>]

T_NEED_PHOTO   == "I need a photo in this thread before I can send the approval."
T_NO_CHANNEL   == "APPROVAL_CHANNEL_ID is not set to a central channel. Ask an admin to set it in Variables."
T_CARD         == "Approval requested: remove ${item} (from ${originName})"
T_SENT         == "Sent to <#${APPROVAL_CHANNEL}> for approval. I'll update here when there's a decision."
T_COULD_NOT    == "I couldn't post in the approvals channel. Error: *${err}*."
T_ONLY_APPROVERS == "Only designated approvers can take this action."
T_RECORDED     == "${label} recorded"
T_APPROVED     == "Approved-proceed with *minimal demo* and full documentation for ${item}."
T_DECLINED     == "Declined-hold demo on ${item}."
T_NOTICE       == "Decision on *${item}*: ${label}"
T_MORE_INFO    == "Need more info to decide on *${item}*: wide shot, close-up, moisture reading, utilities"
T_ANNOTATION   == "*${label}* by <@${user}> at ${time}"

LabelApproved == <<"A","P","P","R","O","V","E","D"," ","check">>
LabelDeclined == <<"D","E","C","L","I","N","E","D"," ","cross">>
APPROVED      == <<"A","P","P","R","O","V","E","D">>

\* a rejected call: e.data.error (absent for a transport error) and e.message
ErrApi == [data_error |-> "not_in_channel", message |-> "An API error occurred: not_in_channel"]
ErrNet == [data_error |-> "", message |-> "socket hang up"]
NoErr  == [data_error |-> "", message |-> ""]
Errors == {ErrApi, ErrNet}

\* err?.data?.error || err.message
ErrText(err) == IF err.data_error # "" THEN err.data_error ELSE err.message

\* JSON.stringify of an object: its members in order; JSON.parse and
\* destructuring: the member of that name
JSONstringify(keys, vals) == [ i \in DOMAIN keys |-> <<keys[i], vals[i]>> ]
JSONget(json, key) == json[CHOOSE i \in DOMAIN json : json[i][1] = key][2]

Button(action_id, value) == [action_id |-> action_id, value |-> value]
Block(type, text, elements) == [type |-> type, text |-> text, elements |-> elements]

\* blocks.filter(b => b.type !== "actions")
RECURSIVE FilterActions(_)
FilterActions(blocks) ==
  IF blocks = <<>> THEN <<>>
  ELSE (IF Head(blocks).type # "actions" THEN <<Head(blocks)>> ELSE <<>>)
       \o FilterActions(Tail(blocks))

HasActions(blocks) == \E i \in DOMAIN blocks : blocks[i].type = "actions"

\* ------------------------------------------------- thread reply histories
File(mimetype, filetype) == [mimetype |-> mimetype, filetype |-> filetype]
FilePng   == File(<<"i","m","a","g","e","/","p","n","g">>, <<"p","n","g">>)
FilePdf   == File(<<"a","p","p","l","i","c","a","t","i","o","n","/","p","d","f">>, <<"p","d","f">>)
FileJPG   == File(<<>>, <<"J","P","G">>)
FileHeic  == File(<<"a","p","p","l","i","c","a","t","i","o","n","/","o","c","t","e","t">>, <<"h","e","i","c">>)
FileBare  == File(<<"i","m","a","g","e">>, <<>>)

\* replies.messages as conversations.replies may return it: each message is
\* its files (m.files || []); an absent mimetype or filetype is the empty string
Histories ==
  { <<>>,
    << <<>> >>,
    << <<FilePdf>> >>,
    << <<FileBare>>, <<FilePdf>> >>,
    << <<>>, <<FilePng>> >>,
    << <<FilePdf, FileJPG>> >>,
    << <<FileHeic>> >> }

\* (replies.messages || []).flatMap(m => m.files || [])
RECURSIVE flatMapFiles(_)
flatMapFiles(messages) ==
  IF messages = <<>> THEN <<>> ELSE Head(messages) \o flatMapFiles(Tail(messages))

IMAGE_PREFIX == <<"i","m","a","g","e","/">>
IMAGE_TYPES ==
  { <<"j","p","g">>, <<"j","p","e","g">>, <<"p","n","g">>, <<"h","e","i","c">>, <<"w","e","b","p">> }

\* variant: the media type is compared with "image", without the slash
IsImageFile_NoSlash(f) ==
  \/ (f.mimetype # <<>> /\ startsWith(f.mimetype, <<"i","m","a","g","e">>))
  \/ toLowerCase(f.filetype) \in IMAGE_TYPES

\* the predicate of files.find(...) in request_approval
IsImageFile(f) ==
  \/ (f.mimetype # <<>> /\ startsWith(f.mimetype, IMAGE_PREFIX))
  \/ toLowerCase(f.filetype) \in IMAGE_TYPES

\* variant: any attached file counts as a photo
HasImage_AnyFile(messages) == flatMapFiles(messages) # <<>>

\* firstImg is truthy
HasImage(messages) ==
  LET files == flatMapFiles(messages)
  IN \E i \in DOMAIN files : IsImageFile(files[i])

\* ------------------------------------------------------------------ state
VARIABLES
  APPROVAL_CHANNEL,     \* process.env.APPROVAL_CHANNEL_ID, trimmed ("" when unset)
  APPROVER_IDS,         \* the approver allow-list (empty: anyone may decide)
  ALLOWED_CHANNELS,     \* the channel allow-list (empty: any channel)
  ALLOW_ALL,            \* process.env.ALLOW_ALL_CHANNELS is "true"
  TEST_CHANNEL,         \* process.env.TEST_CHANNEL_ID ("" when unset)
  oai,                  \* TRUE when the OpenAI client was constructed
  brainReady,           \* computed once at startup
  SLA_VECTOR_STORE_ID,  \* process.env.SLA_VECTOR_STORE_ID, read at every question
  storeChanges,         \* times the environment variable was changed
  approvals,            \* globalThis._approvals: message ts -> record
  assistantCache,       \* _assistantCache
  assistants,           \* provider: assistants created, id -> vector store
  prompts,              \* platform: "Request approval" controls posted
  cards,                \* platform: messages in the approvals channel, ts -> blocks
  nextTs,               \* platform: next message timestamp
  failures,             \* rejected calls so far
  pc,                   \* per event: the await its handler is suspended at
  ev,                   \* per event: the event or action body delivered
  loc,                  \* per event: the handler's local variables
  qa,                   \* per event: the local variables of askSla
  out                   \* per event: the outbound calls made, in order

cfgVars  == <<APPROVAL_CHANNEL, APPROVER_IDS, ALLOWED_CHANNELS, ALLOW_ALL, TEST_CHANNEL,
             oai, brainReady>>
envVars  == <<SLA_VECTOR_STORE_ID, storeChanges>>
vars == <<APPROVAL_CHANNEL, APPROVER_IDS, ALLOWED_CHANNELS, ALLOW_ALL, TEST_CHANNEL,
          oai, brainReady,
          SLA_VECTOR_STORE_ID, storeChanges, approvals, assistantCache,
          assistants, prompts, cards, nextTs, failures, pc, ev, loc, qa, out>>

\* one slot per event of the longest run
Tasks == 1..(IF MaxChain > MaxEvents THEN MaxChain ELSE MaxEvents)

EmptyMap == [ k \in {} |-> 0 ]

NoEvent == [kind |-> "", channel |-> "", ts |-> NoTs, user |-> NoUser,
            text |-> <<>>, value |-> <<>>, blocks |-> <<>>, after |-> {}]
NoLoc   == [err |-> NoErr, replies |-> <<>>, originName |-> <<>>, msgTs |-> NoTs,
            looksLikeDemo |-> FALSE, item |-> <<>>]
NoQa    == [storeId |-> "", sawCache |-> [id |-> 0, storeId |-> ""], assistant_id |-> 0,
            status |-> "", elapsed |-> 0, polls |-> 0, data |-> <<>>,
            logged |-> <<>>, answer |-> NoText]

\* one outbound call as the log keeps it: its arguments and how it settled
Call(api, channel, ts, thread_ts, user, text, blocks, r) ==
  [api |-> api, channel |-> channel, ts |-> ts, thread_ts |-> thread_ts,
   user |-> user, text |-> text, blocks |-> blocks, ok |-> (r = NoErr), err |-> r]

\* the outcomes a call may have: it resolves, or it rejects with an error
Outcomes == {NoErr} \cup (IF failures < MaxFailures THEN Errors ELSE {})

Running(t) == pc[t] \notin {"idle", "done", "threw"}
InFlight == { t \in Tasks : Running(t) }
Delivered == { t \in Tasks : pc[t] # "idle" }

Final == {"done", "threw"}

\* the handler of event t makes one call with outcome r and suspends at next
\* with locals l; its locals are gone once it has returned or thrown
Step(t, call, r, next, l) ==
  /\ out' = [out EXCEPT ![t] = Append(@, call)]
  /\ failures' = IF r = NoErr THEN failures ELSE failures + 1
  /\ pc' = [pc EXCEPT ![t] = next]
  /\ loc' = [loc EXCEPT ![t] = IF next \in Final THEN NoLoc ELSE l]

\* payload members of an interactive event
PChannel(t)   == JSONget(ev[t].value, "channel")
PThread(t)    == JSONget(ev[t].value, "thread_ts")
PItem(t)      == JSONget(ev[t].value, "item")
PRequester(t) == JSONget(ev[t].value, "requester")

\* the state once the module is loaded, whatever the configuration
Loaded ==
  /\ brainReady = (oai /\ SLA_VECTOR_STORE_ID # "")
  /\ storeChanges = 0
  /\ approvals = EmptyMap
  /\ assistantCache = [id |-> 0, storeId |-> ""]
  /\ assistants = EmptyMap
  /\ prompts = {}
  /\ cards = EmptyMap
  /\ nextTs = 1
  /\ failures = 0
  /\ pc = [t \in Tasks |-> "idle"]
  /\ ev = [t \in Tasks |-> NoEvent]
  /\ loc = [t \in Tasks |-> NoLoc]
  /\ qa = [t \in Tasks |-> NoQa]
  /\ out = [t \in Tasks |-> <<>>]

\* the approval workflow, started without the OpenAI key
Init ==
  /\ APPROVAL_CHANNEL \in {"", CENTRAL}
  /\ APPROVER_IDS \in {{}, {"U2"}}
  /\ ALLOWED_CHANNELS \in {{}, {"C1"}}
  /\ ALLOW_ALL = FALSE
  /\ TEST_CHANNEL = ""
  /\ oai = FALSE
  /\ SLA_VECTOR_STORE_ID = ""
  /\ Loaded

\* the question relay, with and without the key and the vector store
InitQA ==
  /\ APPROVAL_CHANNEL = CENTRAL
  /\ APPROVER_IDS = {}
  /\ ALLOWED_CHANNELS = {}
  /\ ALLOW_ALL = FALSE
  /\ TEST_CHANNEL = ""
  /\ oai \in BOOLEAN
  /\ SLA_VECTOR_STORE_ID \in {"", "vs_1"}
  /\ Loaded

\* --------------------------------------------------------- event delivery
\* Bolt invokes the handler of a new event; the handler runs to its first await
Deliver(t, e, first) ==
  /\ pc[t] = "idle"
  /\ \A u \in Tasks : u < t => pc[u] # "idle"
  /\ Cardinality(InFlight) < MaxInFlight
  /\ ev' = [ev EXCEPT ![t] = e]
  /\ pc' = [pc EXCEPT ![t] = first]
  /\ UNCHANGED <<cfgVars, envVars, assistantCache, assistants, approvals, prompts,
                 cards, failures, loc, out>>

\* a crew member presses "Request approval" on a prompt the bot posted
ClickRequestApproval(t) ==
  \E p \in prompts, u \in Crew :
    /\ Deliver(t, [kind |-> "request_approval", channel |-> p.channel, ts |-> p.ts,
                   user |-> u, text |-> <<>>, value |-> p.value, blocks |-> <<>>,
                   after |-> {}],
               "request_approval_ack")
    /\ UNCHANGED <<nextTs, qa>>

\* a user presses a control of an approval card as the platform shows it now
ClickCard(t) ==
  \E ts \in DOMAIN cards, u \in Users :
    \E i \in DOMAIN cards[ts].blocks :
      /\ cards[ts].blocks[i].type = "actions"
      /\ \E b \in Range(cards[ts].blocks[i].elements) :
           /\ Deliver(t, [kind |-> b.action_id, channel |-> cards[ts].channel,
                          ts |-> ts, user |-> u, text |-> <<>>, value |-> b.value,
                          blocks |-> cards[ts].blocks, after |-> {}],
                      IF b.action_id = "request_more_info"
                      THEN "request_more_info_ack" ELSE "decide_ack")
           /\ UNCHANGED <<nextTs, qa>>

Ack(r) == Call("ack", "", NoTs, NoTs, NoUser, NoText, <<>>, r)

\* an awaited call inside a try block: it resolves and the handler goes on
\* to okNext with locals l, or it rejects and the catch block gets the error
Try(t, call, r, okNext, l, catchNext) ==
  Step(t, call, r, IF r = NoErr THEN okNext ELSE catchNext,
       IF r = NoErr THEN l ELSE [loc[t] EXCEPT !.err = r])

\* what no platform call of a handler changes
PlatformFrame == UNCHANGED <<cfgVars, envVars, assistantCache, assistants, qa, ev>>

\* ------------------------------------------------------- request_approval
DecisionValue(channel, thread_ts, item, requester) ==
  JSONstringify(<<"channel", "thread_ts", "item", "requester">>,
                <<channel, thread_ts, item, requester>>)

\* approvalBlocks
ApprovalBlocks(channel, thread_ts, item, requester, originName) ==
  LET value == DecisionValue(channel, thread_ts, item, requester)
  IN << Block("header", Text("Demo Approval Request", <<>>, <<>>, <<>>), <<>>),
        Block("section", Text("*${CREW} requests approval to remove:* *${item}*", item, <<>>, <<>>), <<>>),
        Block("context", Text("*Origin:* ${originName} <${permalink}|Open job thread>", <<>>, <<>>, originName), <<>>),
        Block("divider", NoText, <<>>),
        Block("section", Text("Crew notes: suspect wet material behind the wall.", <<>>, <<>>, <<>>), <<>>),
        Block("actions", NoText,
              << Button("approve_demo", value),
                 Button("decline_demo", value),
                 Button("request_more_info", value) >>) >>

\* variant: the approvals channel is not required, as in the version that
\* falls back to the origin channel
request_approval_ack_Ungated(t) ==
  /\ pc[t] = "request_approval_ack"
  /\ \E r \in Outcomes :
       Step(t, Ack(r), r,
            IF r # NoErr THEN "threw" ELSE "request_approval_replies", loc[t])
  /\ PlatformFrame
  /\ UNCHANGED <<approvals, prompts, cards, nextTs>>

\* await ack(), outside the try block; then the payload is parsed and the
\* approvals channel is required
request_approval_ack(t) ==
  /\ pc[t] = "request_approval_ack"
  /\ \E r \in Outcomes :
       Step(t, Ack(r), r,
            IF r # NoErr THEN "threw"
            ELSE IF APPROVAL_CHANNEL = "" THEN "request_approval_nochannel"
            ELSE "request_approval_replies",
            loc[t])
  /\ PlatformFrame
  /\ UNCHANGED <<approvals, prompts, cards, nextTs>>

request_approval_nochannel(t) ==
  /\ pc[t] = "request_approval_nochannel"
  /\ \E r \in Outcomes :
       Try(t, Call("chat.postMessage", PChannel(t), NoTs, PThread(t), NoUser,
                   Text(T_NO_CHANNEL, <<>>, <<>>, <<>>), <<>>, r), r,
           "done", loc[t], "request_approval_catch")
  /\ PlatformFrame
  /\ UNCHANGED <<approvals, prompts, cards, nextTs>>

\* conversations.replies, then the search for a first image
request_approval_replies(t) ==
  /\ pc[t] = "request_approval_replies"
  /\ \E r \in Outcomes, h \in Histories :
       /\ r # NoErr => h = <<>>
       /\ Try(t, Call("conversations.replies", PChannel(t), PThread(t), NoTs, NoUser,
                      NoText, <<>>, r), r,
              IF HasImage(h) THEN "request_approval_links" ELSE "request_approval_nophoto",
              [loc[t] EXCEPT !.replies = h], "request_approval_catch")
  /\ PlatformFrame
  /\ UNCHANGED <<approvals, prompts, cards, nextTs>>

\* variant: the photo reminder is posted to the whole thread
request_approval_nophoto_public(t) ==
  /\ pc[t] = "request_approval_nophoto"
  /\ \E r \in Outcomes :
       Try(t, Call("chat.postMessage", PChannel(t), NoTs, PThread(t), NoUser,
                   Text(T_NEED_PHOTO, <<>>, <<>>, <<>>), <<>>, r), r,
           "done", loc[t], "request_approval_catch")
  /\ PlatformFrame
  /\ UNCHANGED <<approvals, prompts, cards, nextTs>>

\* the ephemeral reminder to the user who clicked, then return
request_approval_nophoto(t) ==
  /\ pc[t] = "request_approval_nophoto"
  /\ \E r \in Outcomes :
       Try(t, Call("chat.postEphemeral", PChannel(t), NoTs, PThread(t), ev[t].user,
                   Text(T_NEED_PHOTO, <<>>, <<>>, <<>>), <<>>, r), r,
           "done", loc[t], "request_approval_catch")
  /\ PlatformFrame
  /\ UNCHANGED <<approvals, prompts, cards, nextTs>>

ChannelNames == {"", "jobs"}

\* chanInfo?.channel?.name ? `#${name}` : `<#${channel}>`
OriginName(name, channel) ==
  IF name # "" THEN <<"#", name>> ELSE <<"<#", channel, ">">>

\* Promise.all([chat.getPermalink, conversations.info]): both calls are made;
\* it rejects with the rejection of either
request_approval_links(t) ==
  /\ pc[t] = "request_approval_links"
  /\ \E r1 \in Outcomes, r2 \in Outcomes, name \in ChannelNames :
       LET nfail == (IF r1 = NoErr THEN 0 ELSE 1) + (IF r2 = NoErr THEN 0 ELSE 1)
           c1 == Call("chat.getPermalink", PChannel(t), PThread(t), NoTs, NoUser, NoText, <<>>, r1)
           c2 == Call("conversations.info", PChannel(t), NoTs, NoTs, NoUser, NoText, <<>>, r2)
       IN /\ failures + nfail <= MaxFailures
          /\ nfail > 0 => name = ""
          /\ out' = [out EXCEPT ![t] = @ \o <<c1, c2>>]
          /\ failures' = failures + nfail
          /\ IF nfail = 0
             THEN /\ loc' = [loc EXCEPT ![t].originName = OriginName(name, PChannel(t))]
                  /\ pc' = [pc EXCEPT ![t] = "request_approval_join"]
             ELSE /\ \E r \in {r1, r2} \ {NoErr} : loc' = [loc EXCEPT ![t].err = r]
                  /\ pc' = [pc EXCEPT ![t] = "request_approval_catch"]
  /\ PlatformFrame
  /\ UNCHANGED <<approvals, prompts, cards, nextTs>>

\* ensureInChannel(client, APPROVAL_CHANNEL): a rejected join is swallowed
request_approval_join(t) ==
  /\ pc[t] = "request_approval_join"
  /\ \E r \in Outcomes :
       Step(t, Call("conversations.join", APPROVAL_CHANNEL, NoTs, NoTs, NoUser, NoText, <<>>, r),
            r, "request_approval_post", loc[t])
  /\ PlatformFrame
  /\ UNCHANGED <<approvals, prompts, cards, nextTs>>

\* variant: the entry is filed under the origin thread instead of msg.ts
ApprovalsSet_ByThread(map, key, rec) == (rec.thread_ts :> rec) @@ map

\* variant: the registry is replaced by a new Map holding the new entry
ApprovalsSet_Replace(map, key, rec) == (key :> rec)

\* Map.prototype.set on globalThis._approvals
ApprovalsSet(map, key, rec) == (key :> rec) @@ map

\* variant: a rejected card post is tried again
request_approval_post_Retry(t) ==
  /\ pc[t] = "request_approval_post"
  /\ \E r \in Outcomes :
       LET blocks == ApprovalBlocks(PChannel(t), PThread(t), PItem(t), ev[t].user,
                                    loc[t].originName)
       IN /\ Try(t, Call("chat.postMessage", APPROVAL_CHANNEL, NoTs, NoTs, NoUser,
                         Text(T_CARD, PItem(t), <<>>, loc[t].originName), blocks, r), r,
                 "request_approval_confirm", [loc[t] EXCEPT !.msgTs = nextTs],
                 "request_approval_post")
          /\ IF r = NoErr
             THEN /\ cards' = (nextTs :> [channel |-> APPROVAL_CHANNEL, blocks |-> blocks]) @@ cards
                  /\ nextTs' = nextTs + 1
                  /\ approvals' = ApprovalsSet(approvals, nextTs,
                                    [channel |-> PChannel(t), thread_ts |-> PThread(t),
                                     requester |-> ev[t].user, item |-> PItem(t)])
             ELSE UNCHANGED <<cards, nextTs, approvals>>
  /\ PlatformFrame
  /\ UNCHANGED prompts

\* the card is posted to the approvals channel; on success the platform
\* assigns msg.ts and the mapping is recorded before the next await
request_approval_post(t) ==
  /\ pc[t] = "request_approval_post"
  /\ \E r \in Outcomes :
       LET blocks == ApprovalBlocks(PChannel(t), PThread(t), PItem(t), ev[t].user,
                                    loc[t].originName)
       IN /\ Try(t, Call("chat.postMessage", APPROVAL_CHANNEL, NoTs, NoTs, NoUser,
                         Text(T_CARD, PItem(t), <<>>, loc[t].originName), blocks, r), r,
                 "request_approval_confirm", [loc[t] EXCEPT !.msgTs = nextTs],
                 "request_approval_catch")
          /\ IF r = NoErr
             THEN /\ cards' = (nextTs :> [channel |-> APPROVAL_CHANNEL, blocks |-> blocks]) @@ cards
                  /\ nextTs' = nextTs + 1
                  /\ approvals' = ApprovalsSet(approvals, nextTs,
                                    [channel |-> PChannel(t), thread_ts |-> PThread(t),
                                     requester |-> ev[t].user, item |-> PItem(t)])
             ELSE UNCHANGED <<cards, nextTs, approvals>>
  /\ PlatformFrame
  /\ UNCHANGED prompts

request_approval_confirm(t) ==
  /\ pc[t] = "request_approval_confirm"
  /\ \E r \in Outcomes :
       Try(t, Call("chat.postMessage", PChannel(t), NoTs, PThread(t), NoUser,
                   Text(T_SENT, <<>>, <<>>, <<APPROVAL_CHANNEL>>), <<>>, r), r,
           "done", loc[t], "request_approval_catch")
  /\ PlatformFrame
  /\ UNCHANGED <<approvals, prompts, cards, nextTs>>

\* variant: the catch block only logs, as in the first versions of the handler
request_approval_catch_LogOnly(t) ==
  /\ pc[t] = "request_approval_catch"
  /\ pc' = [pc EXCEPT ![t] = "done"]
  /\ loc' = [loc EXCEPT ![t] = NoLoc]
  /\ PlatformFrame
  /\ UNCHANGED <<approvals, prompts, cards, nextTs, failures, out>>

\* the catch block: a best-effort error message to the origin thread, whose
\* own rejection is swallowed
request_approval_catch(t) ==
  /\ pc[t] = "request_approval_catch"
  /\ \E r \in Outcomes :
       Step(t, Call("chat.postMessage", PChannel(t), NoTs, PThread(t), NoUser,
                    Text(T_COULD_NOT, <<>>, <<>>, <<ErrText(loc[t].err)>>), <<>>, r),
            r, "done", loc[t])
  /\ PlatformFrame
  /\ UNCHANGED <<approvals, prompts, cards, nextTs>>

\* ----------------------------------------------------------------- decide
\* app.action("approve_demo", decide("APPROVED ...")) and its sibling
DecideLabel(action_id) ==
  IF action_id = "approve_demo" THEN LabelApproved ELSE LabelDeclined

\* variant: the label is searched for the word as the verdict spells it
Verdict_Capitalised(label, item) ==
  IF includes(label, <<"A","p","p","r","o","v","e","d">>)
  THEN Text(T_APPROVED, item, <<>>, <<>>)
  ELSE Text(T_DECLINED, item, <<>>, <<>>)

\* const verdict = label.includes("APPROVED") ? ... : ...
Verdict(label, item) ==
  IF includes(label, APPROVED)
  THEN Text(T_APPROVED, item, <<>>, <<>>)
  ELSE Text(T_DECLINED, item, <<>>, <<>>)

\* variant: no allow-list check, as in the first versions of decide
Authorized_Unchecked(user) == TRUE

\* the allow-list check of decide
Authorized(user) == ~(APPROVER_IDS # {} /\ user \notin APPROVER_IDS)

\* variant: the annotation is appended to the blocks as they are
DecidedBlocks_KeepControls(blocks, label, user) ==
  blocks \o << Block("context", Text(T_ANNOTATION, <<>>, label, <<user>>), <<>>) >>

\* the blocks decide sends to chat.update
DecidedBlocks(blocks, label, user) ==
  FilterActions(blocks)
    \o << Block("context", Text(T_ANNOTATION, <<>>, label, <<user>>), <<>>) >>

\* variant: a decision on a card the registry does not know is dropped
decide_ack_Registered(t) ==
  /\ pc[t] = "decide_ack"
  /\ \E r \in Outcomes :
       Step(t, Ack(r), r,
            IF r # NoErr THEN "threw"
            ELSE IF ev[t].ts \notin DOMAIN approvals THEN "done"
            ELSE IF Authorized(ev[t].user) THEN "decide_update"
            ELSE "decide_unauthorized",
            loc[t])
  /\ PlatformFrame
  /\ UNCHANGED <<approvals, prompts, cards, nextTs>>

decide_ack(t) ==
  /\ pc[t] = "decide_ack"
  /\ \E r \in Outcomes :
       Step(t, Ack(r), r,
            IF r # NoErr THEN "threw"
            ELSE IF Authorized(ev[t].user) THEN "decide_update"
            ELSE "decide_unauthorized",
            loc[t])
  /\ PlatformFrame
  /\ UNCHANGED <<approvals, prompts, cards, nextTs>>

\* the catch block of decide only logs: every rejection ends the handler
decide_unauthorized(t) ==
  /\ pc[t] = "decide_unauthorized"
  /\ \E r \in Outcomes :
       Step(t, Call("chat.postEphemeral", ev[t].channel, NoTs, NoTs, ev[t].user,
                    Text(T_ONLY_APPROVERS, <<>>, <<>>, <<>>), <<>>, r), r, "done", loc[t])
  /\ PlatformFrame
  /\ UNCHANGED <<approvals, prompts, cards, nextTs>>

\* variant: the verdict is posted whether or not the card was rewritten
decide_update_Continue(t) ==
  /\ pc[t] = "decide_update"
  /\ \E r \in Outcomes :
       LET label == DecideLabel(ev[t].kind)
           blocks == DecidedBlocks(ev[t].blocks, label, ev[t].user)
       IN /\ Step(t, Call("chat.update", ev[t].channel, ev[t].ts, NoTs, NoUser,
                          Text(T_RECORDED, <<>>, label, <<>>), blocks, r), r,
                  "decide_verdict", loc[t])
          /\ cards' = IF r = NoErr THEN [cards EXCEPT ![ev[t].ts].blocks = blocks] ELSE cards
  /\ PlatformFrame
  /\ UNCHANGED <<approvals, prompts, nextTs>>

\* variant: a decided card is taken out of the registry
decide_update_Forget(t) ==
  /\ pc[t] = "decide_update"
  /\ \E r \in Outcomes :
       LET label == DecideLabel(ev[t].kind)
           blocks == DecidedBlocks(ev[t].blocks, label, ev[t].user)
       IN /\ Step(t, Call("chat.update", ev[t].channel, ev[t].ts, NoTs, NoUser,
                          Text(T_RECORDED, <<>>, label, <<>>), blocks, r), r,
                  IF r = NoErr THEN "decide_verdict" ELSE "done", loc[t])
          /\ cards' = IF r = NoErr THEN [cards EXCEPT ![ev[t].ts].blocks = blocks] ELSE cards
          /\ approvals' = IF r = NoErr
                          THEN [ k \in DOMAIN approvals \ {ev[t].ts} |-> approvals[k] ]
                          ELSE approvals
  /\ PlatformFrame
  /\ UNCHANGED <<prompts, nextTs>>

\* chat.update replaces the card's blocks on the platform
decide_update(t) ==
  /\ pc[t] = "decide_update"
  /\ \E r \in Outcomes :
       LET label == DecideLabel(ev[t].kind)
           blocks == DecidedBlocks(ev[t].blocks, label, ev[t].user)
       IN /\ Step(t, Call("chat.update", ev[t].channel, ev[t].ts, NoTs, NoUser,
                          Text(T_RECORDED, <<>>, label, <<>>), blocks, r), r,
                  IF r = NoErr THEN "decide_verdict" ELSE "done", loc[t])
          /\ cards' = IF r = NoErr THEN [cards EXCEPT ![ev[t].ts].blocks = blocks] ELSE cards
  /\ PlatformFrame
  /\ UNCHANGED <<approvals, prompts, nextTs>>

decide_verdict(t) ==
  /\ pc[t] = "decide_verdict"
  /\ \E r \in Outcomes :
       Step(t, Call("chat.postMessage", PChannel(t), NoTs, PThread(t), NoUser,
                    Verdict(DecideLabel(ev[t].kind), PItem(t)), <<>>, r), r,
            IF r = NoErr THEN "decide_notice" ELSE "done", loc[t])
  /\ PlatformFrame
  /\ UNCHANGED <<approvals, prompts, cards, nextTs>>

\* variant: the notice is shown to the user who decided
decide_notice_ToApprover(t) ==
  /\ pc[t] = "decide_notice"
  /\ \E r \in Outcomes :
       Step(t, Call("chat.postEphemeral", PChannel(t), NoTs, PThread(t), ev[t].user,
                    Text(T_NOTICE, PItem(t), DecideLabel(ev[t].kind), <<>>), <<>>, r),
            r, "done", loc[t])
  /\ PlatformFrame
  /\ UNCHANGED <<approvals, prompts, cards, nextTs>>

decide_notice(t) ==
  /\ pc[t] = "decide_notice"
  /\ \E r \in Outcomes :
       Step(t, Call("chat.postEphemeral", PChannel(t), NoTs, PThread(t), PRequester(t),
                    Text(T_NOTICE, PItem(t), DecideLabel(ev[t].kind), <<>>), <<>>, r),
            r, "done", loc[t])
  /\ PlatformFrame
  /\ UNCHANGED <<approvals, prompts, cards, nextTs>>

\* ------------------------------------------------------ request_more_info
\* variant: the checklist is posted before the click is acknowledged
request_more_info_ack_PostFirst(t) ==
  /\ pc[t] = "request_more_info_ack"
  /\ \E r \in Outcomes :
       Step(t, Call("chat.postMessage", PChannel(t), NoTs, PThread(t), NoUser,
                    Text(T_MORE_INFO, PItem(t), <<>>, <<>>), <<>>, r), r,
            IF r # NoErr THEN "done" ELSE "request_more_info_post", loc[t])
  /\ PlatformFrame
  /\ UNCHANGED <<approvals, prompts, cards, nextTs>>

request_more_info_ack(t) ==
  /\ pc[t] = "request_more_info_ack"
  /\ \E r \in Outcomes :
       Step(t, Ack(r), r, IF r # NoErr THEN "threw" ELSE "request_more_info_post", loc[t])
  /\ PlatformFrame
  /\ UNCHANGED <<approvals, prompts, cards, nextTs>>

\* variant: asking for more information also takes the controls off the card
request_more_info_post_Strip(t) ==
  /\ pc[t] = "request_more_info_post"
  /\ \E r \in Outcomes :
       /\ Step(t, Call("chat.postMessage", PChannel(t), NoTs, PThread(t), NoUser,
                       Text(T_MORE_INFO, PItem(t), <<>>, <<>>), <<>>, r), r, "done", loc[t])
       /\ cards' = IF r = NoErr
                   THEN [cards EXCEPT ![ev[t].ts].blocks = FilterActions(@)]
                   ELSE cards
  /\ PlatformFrame
  /\ UNCHANGED <<approvals, prompts, nextTs>>

request_more_info_post(t) ==
  /\ pc[t] = "request_more_info_post"
  /\ \E r \in Outcomes :
       Step(t, Call("chat.postMessage", PChannel(t), NoTs, PThread(t), NoUser,
                    Text(T_MORE_INFO, PItem(t), <<>>, <<>>), <<>>, r), r, "done", loc[t])
  /\ PlatformFrame
  /\ UNCHANGED <<approvals, prompts, cards, nextTs>>

\* ------------------------------------------------------------- SLA brain
TIMEOUT_MS == 90000
SLEEP_MS   == 800

A_NOT_CONFIGURED == "SLA brain is not configured yet (need OPENAI_API_KEY and SLA_VECTOR_STORE_ID)."
A_SNAG      == "I hit a snag reading the SLA. Check that the API key and vector store are in the *same OpenAI project*, and that the store has at least one file in Ready status."
A_NO_CLAUSE == "I couldn't find a clear clause-try specifying the carrier/program or add a photo."
A_ANSWER    == "${text}"

\* what console.error receives in the catch block of askSla
E_NOT_CONFIGURED == "SLA brain not configured (OPENAI_API_KEY / SLA_VECTOR_STORE_ID)."
E_TIMEOUT        == "Assistant run timeout (>90s)"
E_PROVIDER       == "401 Incorrect API key provided"
RunError(status) == <<"Assistant run ", status>>

ErrProvider == [data_error |-> "", message |-> E_PROVIDER]
ProviderOutcomes == {NoErr} \cup (IF failures < MaxFailures THEN {ErrProvider} ELSE {})

TERMINAL == {"completed", "failed", "cancelled", "expired"}
RunStatuses == {"queued", "in_progress"} \cup TERMINAL

\* time one runs.retrieve call takes after the sleep, in ms
Latencies == {0, 89200, 89201}

ContentText(value) == [type |-> "text", value |-> value]
ContentImage == [type |-> "image_file", value |-> <<>>]

\* msgs.data as threads.messages.list({order: "desc", limit: 1}) may return it
MessageLists ==
  { <<>>,
    << <<>> >>,
    << <<ContentImage>> >>,
    << <<ContentText(<<>>)>> >>,
    << <<ContentImage, ContentText(<<"A">>), ContentText(<<"B">>)>> >>,
    << <<ContentText(<<"B">>)>>, <<ContentText(<<"A">>)>> >> }

\* variant: the text of the first text block only
ConcatText_FirstOnly(content) ==
  LET texts == SelectSeq(content, LAMBDA b : b.type = "text")
  IN IF texts = <<>> THEN <<>> ELSE texts[1].value

\* for (const block of content) if (block.type === "text") text += block.text.value
RECURSIVE ConcatText(_)
ConcatText(content) ==
  IF content = <<>> THEN <<>>
  ELSE (IF Head(content).type = "text" THEN Head(content).value ELSE <<>>)
       \o ConcatText(Tail(content))

\* the text askSla returns for a completed run
Extract(data) ==
  LET content == IF data = <<>> THEN <<>> ELSE data[1]
      text == ConcatText(content)
  IN IF text # <<>> THEN [NoText EXCEPT !.tmpl = A_ANSWER, !.body = text]
     ELSE Text(A_NO_CLAUSE, <<>>, <<>>, <<>>)

ProviderCall(api, r) == Call(api, "", NoTs, NoTs, NoUser, NoText, <<>>, r)

\* where the caller of askSla resumes with its result
Resume(kind) == IF kind = "app_mention" THEN "app_mention_answer" ELSE "done"

\* askSla returns answer; logged is what its catch block printed (<<>> if
\* nothing)
Return(q, answer, logged) == [q EXCEPT !.answer = answer, !.logged = logged]
\* variant: the text returned from the catch block quotes the error
Snag_Quoting(q, logged) == Return(q, Text(A_SNAG, <<>>, <<>>, logged), logged)

\* the catch block of askSla: the error is logged, the fixed text returned
Snag(q, logged) == Return(q, Text(A_SNAG, <<>>, <<>>, <<>>), logged)

\* variant: a cached assistant is returned whatever store it was made for
AskEntry_AnyStore(kind) ==
  LET q0 == [NoQa EXCEPT !.storeId = SLA_VECTOR_STORE_ID, !.sawCache = assistantCache]
  IN IF ~brainReady
     THEN <<Resume(kind), Return(NoQa, Text(A_NOT_CONFIGURED, <<>>, <<>>, <<>>), <<>>)>>
     ELSE IF ~oai \/ SLA_VECTOR_STORE_ID = ""
     THEN <<Resume(kind), Snag(q0, <<E_NOT_CONFIGURED>>)>>
     ELSE IF assistantCache.id # 0
     THEN <<"askSla_thread", [q0 EXCEPT !.assistant_id = assistantCache.id]>>
     ELSE <<"getAssistantId_retrieve", q0>>

\* askSla up to its first await: the brainReady check, then getAssistantId's
\* configuration check and cache lookup.  <<next pc, locals>>
AskEntry(kind) ==
  LET q0 == [NoQa EXCEPT !.storeId = SLA_VECTOR_STORE_ID, !.sawCache = assistantCache]
  IN IF ~brainReady
     THEN <<Resume(kind), Return(NoQa, Text(A_NOT_CONFIGURED, <<>>, <<>>, <<>>), <<>>)>>
     ELSE IF ~oai \/ SLA_VECTOR_STORE_ID = ""
     THEN <<Resume(kind), Snag(q0, <<E_NOT_CONFIGURED>>)>>
     ELSE IF assistantCache.id # 0 /\ assistantCache.storeId = SLA_VECTOR_STORE_ID
     THEN <<"askSla_thread", [q0 EXCEPT !.assistant_id = assistantCache.id]>>
     ELSE <<"getAssistantId_retrieve", q0>>

\* variant: no try block around the provider calls, the rejection reaches the
\* caller
Provider_Uncaught(t, api, r, next, q) ==
  /\ Step(t, ProviderCall(api, r), r, IF r = NoErr THEN next ELSE "threw", loc[t])
  /\ qa' = [qa EXCEPT ![t] = IF r = NoErr THEN q ELSE qa[t]]

\* one provider call of askSla: it rejects into the catch block, which logs
\* and returns the snag text, or the handler goes on to next with locals q
Provider(t, api, r, next, q) ==
  /\ Step(t, ProviderCall(api, r), r,
          IF r = NoErr THEN next ELSE Resume(ev[t].kind), loc[t])
  /\ qa' = [qa EXCEPT ![t] = IF r = NoErr THEN q ELSE Snag(qa[t], <<r.message>>)]

\* what no provider call of askSla changes
ProviderFrame == UNCHANGED <<cfgVars, envVars, approvals, prompts, cards, nextTs, ev>>

\* preflight: oai.vectorStores.retrieve(storeId)
getAssistantId_retrieve(t) ==
  /\ pc[t] = "getAssistantId_retrieve"
  /\ \E r \in ProviderOutcomes :
       Provider(t, "vectorStores.retrieve", r, "getAssistantId_create", qa[t])
  /\ ProviderFrame
  /\ UNCHANGED <<assistantCache, assistants>>

\* variant: the cache is filed under the identifier the environment holds
\* when the creation returns
getAssistantId_create_RereadStore(t) ==
  /\ pc[t] = "getAssistantId_create"
  /\ \E r \in ProviderOutcomes :
       LET id == Cardinality(DOMAIN assistants) + 1
       IN /\ Provider(t, "assistants.create", r, "askSla_thread",
                      [qa[t] EXCEPT !.assistant_id = id])
          /\ IF r = NoErr
             THEN /\ assistants' = (id :> qa[t].storeId) @@ assistants
                  /\ assistantCache' = [id |-> id, storeId |-> SLA_VECTOR_STORE_ID]
             ELSE UNCHANGED <<assistants, assistantCache>>
  /\ ProviderFrame

\* oai.beta.assistants.create, then the cache is overwritten
getAssistantId_create(t) ==
  /\ pc[t] = "getAssistantId_create"
  /\ \E r \in ProviderOutcomes :
       LET id == Cardinality(DOMAIN assistants) + 1
       IN /\ Provider(t, "assistants.create", r, "askSla_thread",
                      [qa[t] EXCEPT !.assistant_id = id])
          /\ IF r = NoErr
             THEN /\ assistants' = (id :> qa[t].storeId) @@ assistants
                  /\ assistantCache' = [id |-> id, storeId |-> qa[t].storeId]
             ELSE UNCHANGED <<assistants, assistantCache>>
  /\ ProviderFrame

askSla_thread(t) ==
  /\ pc[t] = "askSla_thread"
  /\ \E r \in ProviderOutcomes :
       Provider(t, "threads.create", r, "askSla_run", qa[t])
  /\ ProviderFrame
  /\ UNCHANGED <<assistantCache, assistants>>

\* variant: the loop has no guard on the elapsed time
PollLoop_NoTimeout(kind, q, status, elapsed) ==
  LET q0 == [q EXCEPT !.status = status, !.elapsed = 0]
      q1 == [q EXCEPT !.status = status, !.elapsed = elapsed]
  IN IF status \in TERMINAL
     THEN IF status = "completed" THEN <<"askSla_list", q0>>
          ELSE <<Resume(kind), Snag(q0, RunError(status))>>
     ELSE <<"askSla_poll", q1>>

\* the while loop of askSla from its test to the next await, with run.status
\* and Date.now() - started given; the clock is read only while the status is
\* not terminal.  <<next pc, locals>>
PollLoop(kind, q, status, elapsed) ==
  LET q0 == [q EXCEPT !.status = status, !.elapsed = 0]
      q1 == [q EXCEPT !.status = status, !.elapsed = elapsed]
  IN IF status \in TERMINAL
     THEN IF status = "completed" THEN <<"askSla_list", q0>>
          ELSE <<Resume(kind), Snag(q0, RunError(status))>>
     ELSE IF elapsed > TIMEOUT_MS THEN <<Resume(kind), Snag(q1, <<E_TIMEOUT>>)>>
     ELSE <<"askSla_poll", q1>>

\* oai.beta.threads.runs.create; started = Date.now()
askSla_run(t) ==
  /\ pc[t] = "askSla_run"
  /\ \E r \in ProviderOutcomes, status \in RunStatuses :
       LET nx == PollLoop(ev[t].kind, qa[t], status, 0)
       IN /\ r # NoErr => status = "queued"
          /\ Provider(t, "runs.create", r, nx[1], nx[2])
  /\ ProviderFrame
  /\ UNCHANGED <<assistantCache, assistants>>

\* await sleep(800); run = await runs.retrieve(...): neither touches shared
\* state, so the two awaits are one step
askSla_poll(t) ==
  /\ pc[t] = "askSla_poll"
  /\ \E r \in ProviderOutcomes, lat \in Latencies, status \in RunStatuses :
       LET elapsed == qa[t].elapsed + SLEEP_MS + lat
           nx == PollLoop(ev[t].kind, [qa[t] EXCEPT !.polls = @ + 1], status, elapsed)
       IN /\ r # NoErr => (status = "queued" /\ lat = 0)
          /\ (r = NoErr /\ nx[1] = "askSla_poll") => nx[2].polls < MaxPolls
          /\ Provider(t, "runs.retrieve", r, nx[1], nx[2])
  /\ ProviderFrame
  /\ UNCHANGED <<assistantCache, assistants>>

\* oai.beta.threads.messages.list and the result extraction
askSla_list(t) ==
  /\ pc[t] = "askSla_list"
  /\ \E r \in ProviderOutcomes, data \in MessageLists :
       /\ r # NoErr => data = <<>>
       /\ Provider(t, "messages.list", r, Resume(ev[t].kind),
                   Return([qa[t] EXCEPT !.data = data], Extract(data), <<>>))
  /\ ProviderFrame
  /\ UNCHANGED <<assistantCache, assistants>>

\* a question put to askSla; after: the questions already answered by then
Questions == { <<"q">> }
Ask(t) ==
  \E question \in Questions :
    /\ Deliver(t, [NoEvent EXCEPT !.kind = "askSla", !.text = question,
                                  !.after = { u \in Tasks : pc[u] \in Final }],
               AskEntry("askSla")[1])
    /\ qa' = [qa EXCEPT ![t] = AskEntry("askSla")[2]]
    /\ UNCHANGED nextTs

\* process.env.SLA_VECTOR_STORE_ID is given another value while running
SetStore ==
  /\ storeChanges < MaxStoreChanges
  /\ \E sid \in {"", "vs_1", "vs_2"} \ {SLA_VECTOR_STORE_ID} :
       SLA_VECTOR_STORE_ID' = sid
  /\ storeChanges' = storeChanges + 1
  /\ UNCHANGED <<cfgVars, assistantCache, assistants, qa, approvals, prompts, cards,
                 nextTs, failures, pc, ev, loc, out>>

\* ------------------------------------------------------------ app_mention
M_PROMPT_BRAIN == "Add a photo and press Request approval."
M_PROMPT  == "Send a picture and I'll request approval to remove. Upload 1-2 photos here in this thread, then press Request approval."
M_HINT    == "Say what you need (e.g., *remove vanity*) then upload a photo and press *Request approval*."
M_APOLOGY == "I hit a snag. Try again or ping a manager."

MentionTexts ==
  { <<"<","@","U","B","O","T",">"," ","p","l","e","a","s","e"," ","r","e","m","o","v","e"," ","t","h","e"," ","v","a","n","i","t","y">>,
    <<"<","@","U","B","O","T",">"," ","h","e","l","l","o">> }

\* variant: the iteration that reads ALLOW_ALL_CHANNELS and TEST_CHANNEL_ID
inScopeChannel_AllowAll(channelId) ==
  IF ALLOW_ALL THEN TRUE
  ELSE IF ALLOWED_CHANNELS # {} THEN channelId \in ALLOWED_CHANNELS
  ELSE IF TEST_CHANNEL # "" THEN channelId = TEST_CHANNEL
  ELSE TRUE

inScopeChannel(channelId) ==
  IF ALLOWED_CHANNELS # {} THEN channelId \in ALLOWED_CHANNELS ELSE TRUE

\* (event.text || "").replace(/<@[^>]+>/, "").trim()
MentionText(text) == trim(StripMention(text))

\* the locals text, looksLikeDemo and item of app_mention
Classify(l, text) ==
  [l EXCEPT !.looksLikeDemo = PROMPT_RE(MentionText(text)),
            !.item = parseItem(MentionText(text))]

\* variant: the payload does not name the thread of the mention
RequestValue_Unthreaded(channel, thread_ts, item) ==
  JSONstringify(<<"channel", "thread_ts", "item">>, <<channel, NoTs, item>>)

RequestValue(channel, thread_ts, item) ==
  JSONstringify(<<"channel", "thread_ts", "item">>, <<channel, thread_ts, item>>)

\* the blocks of the prompt: with the brain only the button, without it a
\* section and the button
PromptBlocks(t) ==
  LET actions == Block("actions", NoText,
                   << Button("request_approval",
                             RequestValue(ev[t].channel, ev[t].ts, loc[t].item)) >>)
  IN IF brainReady THEN <<actions>>
     ELSE << Block("section", Text(M_PROMPT, <<>>, <<>>, <<>>), <<>>), actions >>

\* the controls a message shows
Controls(channel, ts, blocks) ==
  { [channel |-> channel, ts |-> ts, value |-> b.value] :
      b \in UNION { Range(blocks[i].elements) : i \in DOMAIN blocks } }

Say(t, text, blocks, r) ==
  Call("say", ev[t].channel, NoTs, ev[t].ts, NoUser, text, blocks, r)

\* someone mentions the bot; out of scope the handler returns at once
Mention(t) ==
  \E channel \in JobChannels, text \in MentionTexts :
    /\ Deliver(t, [NoEvent EXCEPT !.kind = "app_mention", !.channel = channel,
                                  !.ts = nextTs, !.user = "U1", !.text = text],
               IF inScopeChannel(channel) THEN "app_mention_join" ELSE "done")
    /\ nextTs' = nextTs + 1
    /\ UNCHANGED qa

MentionFrame == UNCHANGED <<cfgVars, envVars, assistantCache, assistants, approvals,
                            cards, nextTs, ev>>

\* ensureInChannel(client, event.channel), its rejection swallowed; then the
\* text is classified and, with the brain ready, askSla is entered
app_mention_join(t) ==
  /\ pc[t] = "app_mention_join"
  /\ \E r \in Outcomes :
       /\ Step(t, Call("conversations.join", ev[t].channel, NoTs, NoTs, NoUser, NoText, <<>>, r),
               r,
               IF brainReady THEN AskEntry("app_mention")[1]
               ELSE IF Classify(loc[t], ev[t].text).looksLikeDemo THEN "app_mention_prompt"
               ELSE "app_mention_hint",
               Classify(loc[t], ev[t].text))
       /\ qa' = IF brainReady THEN [qa EXCEPT ![t] = AskEntry("app_mention")[2]] ELSE qa
  /\ MentionFrame
  /\ UNCHANGED prompts

\* variant: the prompt follows the answer whatever the classification
app_mention_answer_Unconditional(t) ==
  /\ pc[t] = "app_mention_answer"
  /\ \E r \in Outcomes :
       Step(t, Say(t, qa[t].answer, <<>>, r), r,
            IF r # NoErr THEN "app_mention_catch" ELSE "app_mention_prompt", loc[t])
  /\ MentionFrame
  /\ UNCHANGED <<prompts, qa>>

\* say({ thread_ts: event.ts, text: answer })
app_mention_answer(t) ==
  /\ pc[t] = "app_mention_answer"
  /\ \E r \in Outcomes :
       Step(t, Say(t, qa[t].answer, <<>>, r), r,
            IF r # NoErr THEN "app_mention_catch"
            ELSE IF loc[t].looksLikeDemo THEN "app_mention_prompt"
            ELSE "done",
            loc[t])
  /\ MentionFrame
  /\ UNCHANGED <<prompts, qa>>

\* the prompt with the "Request approval" control, which the platform shows
app_mention_prompt(t) ==
  /\ pc[t] = "app_mention_prompt"
  /\ \E r \in Outcomes :
       /\ Step(t, Say(t, Text(IF brainReady THEN M_PROMPT_BRAIN ELSE M_PROMPT, <<>>, <<>>, <<>>),
                      PromptBlocks(t), r), r,
               IF r = NoErr THEN "done" ELSE "app_mention_catch", loc[t])
       /\ prompts' = IF r = NoErr
                     THEN prompts \cup Controls(ev[t].channel, ev[t].ts, PromptBlocks(t))
                     ELSE prompts
  /\ MentionFrame
  /\ UNCHANGED qa

app_mention_hint(t) ==
  /\ pc[t] = "app_mention_hint"
  /\ \E r \in Outcomes :
       Step(t, Say(t, Text(M_HINT, <<>>, <<>>, <<>>), <<>>, r), r,
            IF r = NoErr THEN "done" ELSE "app_mention_catch", loc[t])
  /\ MentionFrame
  /\ UNCHANGED <<prompts, qa>>

\* the catch block: its say is not guarded, so its rejection leaves the handler
app_mention_catch(t) ==
  /\ pc[t] = "app_mention_catch"
  /\ \E r \in Outcomes :
       Step(t, Say(t, Text(M_APOLOGY, <<>>, <<>>, <<>>), <<>>, r), r,
            IF r = NoErr THEN "done" ELSE "threw", loc[t])
  /\ MentionFrame
  /\ UNCHANGED <<prompts, qa>>

\* ------------------------------------------------------------------- spec
\* the approval workflow: mention, request, decision
Next ==
  \E t \in 1..MaxEvents :
    \/ Mention(t)
    \/ ClickRequestApproval(t)
    \/ ClickCard(t)
    \/ app_mention_join(t)
    \/ app_mention_prompt(t)
    \/ app_mention_hint(t)
    \/ app_mention_catch(t)
    \/ request_approval_ack(t)
    \/ request_approval_nochannel(t)
    \/ request_approval_replies(t)
    \/ request_approval_nophoto(t)
    \/ request_approval_links(t)
    \/ request_approval_join(t)
    \/ request_approval_post(t)
    \/ request_approval_confirm(t)
    \/ request_approval_catch(t)
    \/ decide_ack(t)
    \/ decide_unauthorized(t)
    \/ decide_update(t)
    \/ decide_verdict(t)
    \/ decide_notice(t)
    \/ request_more_info_ack(t)
    \/ request_more_info_post(t)

Spec == Init /\ [][Next]_vars

\* the process is stopped between two events and started again: what it kept
\* in memory is gone, what the platform and the environment keep is not
Restart ==
  /\ InFlight = {}
  /\ approvals' = EmptyMap
  /\ assistantCache' = [id |-> 0, storeId |-> ""]
  /\ brainReady' = (oai /\ SLA_VECTOR_STORE_ID # "")
  /\ UNCHANGED <<APPROVAL_CHANNEL, APPROVER_IDS, ALLOWED_CHANNELS, ALLOW_ALL,
                 TEST_CHANNEL, oai, envVars, assistants, prompts, cards, nextTs,
                 failures, pc, ev, loc, qa, out>>

\* the approval workflow over restarts of the process
NextRestart ==
  \/ Next
  \/ Restart

SpecRestart == Init /\ [][NextRestart]_vars

\* the platform accepts every call of the run: no rejection is left to happen
InitChain ==
  /\ APPROVAL_CHANNEL = CENTRAL
  /\ APPROVER_IDS \in {{}, {"U2"}}
  /\ ALLOWED_CHANNELS = {}
  /\ ALLOW_ALL = FALSE
  /\ TEST_CHANNEL = ""
  /\ oai = FALSE
  /\ SLA_VECTOR_STORE_ID = ""
  /\ brainReady = FALSE
  /\ storeChanges = 0
  /\ approvals = EmptyMap
  /\ assistantCache = [id |-> 0, storeId |-> ""]
  /\ assistants = EmptyMap
  /\ prompts = {}
  /\ cards = EmptyMap
  /\ nextTs = 1
  /\ failures = MaxFailures
  /\ pc = [t \in Tasks |-> "idle"]
  /\ ev = [t \in Tasks |-> NoEvent]
  /\ loc = [t \in Tasks |-> NoLoc]
  /\ qa = [t \in Tasks |-> NoQa]
  /\ out = [t \in Tasks |-> <<>>]

\* the longer runs of the workflow: two requests, or two decisions of one card;
\* no catch block is entered when every call is accepted
NextChain ==
  \E t \in 1..MaxChain :
    \/ Mention(t)
    \/ ClickRequestApproval(t)
    \/ ClickCard(t)
    \/ app_mention_join(t)
    \/ app_mention_prompt(t)
    \/ app_mention_hint(t)
    \/ request_approval_ack(t)
    \/ request_approval_replies(t)
    \/ request_approval_nophoto(t)
    \/ request_approval_links(t)
    \/ request_approval_join(t)
    \/ request_approval_post(t)
    \/ request_approval_confirm(t)
    \/ decide_ack(t)
    \/ decide_unauthorized(t)
    \/ decide_update(t)
    \/ decide_verdict(t)
    \/ decide_notice(t)
    \/ request_more_info_ack(t)
    \/ request_more_info_post(t)

SpecChain == InitChain /\ [][NextChain]_vars

\* the question relay: questions put to askSla, one after the other or together
NextQA ==
  \/ SetStore
  \/ \E t \in 1..MaxQuestions :
       \/ Ask(t)
       \/ getAssistantId_retrieve(t)
       \/ getAssistantId_create(t)
       \/ askSla_thread(t)
       \/ askSla_run(t)
       \/ askSla_poll(t)
       \/ askSla_list(t)

SpecQA == InitQA /\ [][NextQA]_vars

\* the steps of askSla for question t
askSla_step(t) ==
  \/ getAssistantId_retrieve(t)
  \/ getAssistantId_create(t)
  \/ askSla_thread(t)
  \/ askSla_run(t)
  \/ askSla_poll(t)
  \/ askSla_list(t)

\* every provider call settles and the timer of sleep() fires: a question
\* suspended at an await is resumed
SpecQAFair == SpecQA /\ \A t \in 1..MaxQuestions : WF_vars(askSla_step(t))

\* the question relay behind a mention
NextRelay ==
  \/ SetStore
  \/ \E t \in 1..MaxMentions :
       \/ Mention(t)
       \/ app_mention_join(t)
       \/ app_mention_answer(t)
       \/ app_mention_prompt(t)
       \/ app_mention_hint(t)
       \/ app_mention_catch(t)
       \/ getAssistantId_retrieve(t)
       \/ getAssistantId_create(t)
       \/ askSla_thread(t)
       \/ askSla_run(t)
       \/ askSla_poll(t)
       \/ askSla_list(t)

SpecRelay == InitQA /\ [][NextRelay]_vars

\* the text classifier behind a mention: event texts that exercise the
\* patterns of parseItem and PROMPT_RE (letter case, runs of whitespace,
\* hyphens, digits, punctuation, each keyword alone, the bare mention)
UBOT == <<"<","@","U","B","O","T",">">>
ClassifierTexts ==
  { UBOT,
    UBOT \o <<" ","h","e","l","l","o">>,
    UBOT \o <<" ","p","l","e","a","s","e"," ","r","e","m","o","v","e"," ","t","h","e"," ","v","a","n","i","t","y">>,
    UBOT \o <<" ","r","e","m","o","v","e"," ","v","a","n","i","t","y">>,
    UBOT \o <<" ","R","e","m","o","v","e"," "," ","t","h","e","-","o","l","d"," ","C","a","b","i","n","e","t"," ","2",","," ","n","o","w">>,
    UBOT \o <<" ","r","e","m","o","v","e"," "," ","!">>,
    UBOT \o <<" ","r","e","m","o","v","e"," ","!">>,
    UBOT \o <<" ","r","e","m","o","v","e">>,
    UBOT \o <<" ","r","e","m","o","v","e"," ","-">>,
    UBOT \o <<" ","r","e","m","o","v","e","d"," ","v","a","n","i","t","y">>,
    UBOT \o <<" ","r","e","m","o","v","e","x"," ","y"," ","R","E","M","O","V","E"," ","z">>,
    UBOT \o <<" ","r","e","m","o","v","e"," ","\t",".">>,
    UBOT \o <<" ","V","A","N","I","T","Y"," ","t","o","p">>,
    UBOT \o <<" ","o","l","d"," ","C","a","b","i","n","e","t"," ","a","n","d"," ","v","a","n","i","t","y">>,
    UBOT \o <<" ","k","i","t","c","h","e","n"," ","c","a","b","i","n","e","t">>,
    UBOT \o <<" ","t","e","a","r","-","o","u","t"," ","w","a","l","l">>,
    UBOT \o <<" ","t","e","a","r","-","o","u","t">>,
    UBOT \o <<" ","t","e","a","r","o","u","t">>,
    UBOT \o <<" ","d","e","m","o">>,
    UBOT \o <<" ","D","E","M","O"," ","d","a","y">>,
    UBOT \o <<" ","c","a","b","i","n","e","t">>,
    UBOT \o <<" ","v","a","n","i","t","y">>,
    UBOT \o <<" ","a","p","p","r","o","v","a","l">>,
    UBOT \o <<" ","a","p","p","r","o","v","e">>,
    UBOT \o <<" ","A","p","p","r","o","v","e"," ","i","t">> }

\* someone mentions the bot with one of the classifier's texts
MentionAnyText(t) ==
  \E channel \in JobChannels, text \in ClassifierTexts :
    /\ Deliver(t, [NoEvent EXCEPT !.kind = "app_mention", !.channel = channel,
                                  !.ts = nextTs, !.user = "U1", !.text = text],
               IF inScopeChannel(channel) THEN "app_mention_join" ELSE "done")
    /\ nextTs' = nextTs + 1
    /\ UNCHANGED qa

\* started without the OpenAI key, under any setting of the three scope inputs
InitClassify ==
  /\ APPROVAL_CHANNEL = CENTRAL
  /\ APPROVER_IDS = {}
  /\ ALLOWED_CHANNELS \in {{}, {"C1"}}
  /\ ALLOW_ALL \in BOOLEAN
  /\ TEST_CHANNEL \in {"", "C1", "C2"}
  /\ oai = FALSE
  /\ SLA_VECTOR_STORE_ID = ""
  /\ Loaded

NextClassify ==
  \E t \in 1..MaxMentions :
    \/ MentionAnyText(t)
    \/ app_mention_join(t)
    \/ app_mention_prompt(t)
    \/ app_mention_hint(t)
    \/ app_mention_catch(t)

SpecClassify == InitClassify /\ [][NextClassify]_vars

\* ============================================================= properties
Last(s) == s[Len(s)]

\* the calls the handler of event t makes in this step
NewCalls(t) == SubSeq(out'[t], Len(out[t]) + 1, Len(out'[t]))

\* calls that send or rewrite a message
MessageApis == {"chat.postMessage", "chat.postEphemeral", "chat.update", "say"}
Messages(t) == SelectSeq(out[t], LAMBDA c : c.api \in MessageApis)
With(t, tmpl) == SelectSeq(out[t], LAMBDA c : c.text.tmpl = tmpl)

IsCardPost(c) == c.api = "chat.postMessage" /\ c.text.tmpl = T_CARD

\* ---- C1
\* an image attachment as the specification words it
C1_Image(f) ==
  \/ startsWith(f.mimetype, <<"i","m","a","g","e","/">>)
  \/ \E ext \in { <<"j","p","g">>, <<"j","p","e","g">>, <<"p","n","g">>,
                   <<"h","e","i","c">>, <<"w","e","b","p">> } :
       toLowerCase(f.filetype) = ext

\* C1: request_approval attempts the post of the approval card only when the
\* reply history it fetched holds a file whose media type starts with image/
\* or whose file type is, in any letter case, jpg, jpeg, png, heic or webp; for
\* a history without files or with other files only it attempts no card post.
C1_CardOnlyWithImage ==
  [][ \A t \in Tasks :
        (\E i \in DOMAIN NewCalls(t) : IsCardPost(NewCalls(t)[i]))
          => \E f \in Range(flatMapFiles(loc[t].replies)) : C1_Image(f) ]_vars

\* a card was posted for a thread whose only image is a file of type "JPG"
\* with no media type
C1_Witness ==
  \E t \in Tasks :
    /\ pc[t] = "request_approval_confirm"
    /\ IsCardPost(Last(out[t])) /\ Last(out[t]).ok
    /\ loc[t].replies = << <<FilePdf, FileJPG>> >>

\* ---- C2
C2_NoImage(messages) == \A f \in Range(flatMapFiles(messages)) : ~C1_Image(f)

\* the photo reminder as the handler of event t has to send it
C2_IsNotice(t, c) ==
  /\ c.api = "chat.postEphemeral" /\ c.text.tmpl = T_NEED_PHOTO
  /\ c.user = ev[t].user /\ c.channel = PChannel(t) /\ c.thread_ts = PThread(t)

C2_IsErrorReport(t, c) ==
  /\ c.api = "chat.postMessage" /\ c.text.tmpl = T_COULD_NOT
  /\ c.channel = PChannel(t) /\ c.thread_ts = PThread(t)

\* what the handler of event t has sent once the reminder was attempted
C2_Sent(t) ==
  With(t, T_NEED_PHOTO) # <<>> =>
    LET n == With(t, T_NEED_PHOTO)[1]
        m == Messages(t)
    IN /\ Len(With(t, T_NEED_PHOTO)) = 1
       /\ C2_IsNotice(t, n)
       /\ With(t, T_CARD) = <<>> /\ With(t, T_SENT) = <<>>
       /\ m[1] = n
       /\ IF n.ok THEN Len(m) = 1
          ELSE Len(m) <= 2 /\ (Len(m) = 2 => C2_IsErrorReport(t, m[2]))

C2_Step(t) ==
  /\ (pc[t] = "request_approval_replies" /\ pc'[t] # pc[t]
        /\ Last(out'[t]).ok /\ C2_NoImage(loc'[t].replies))
       => pc'[t] = "request_approval_nophoto"
  /\ pc'[t] = "request_approval_nophoto" => APPROVAL_CHANNEL # "" /\ Messages(t)' = <<>>
  /\ (pc[t] = "request_approval_nophoto" /\ pc'[t] # pc[t])
       => Len(NewCalls(t)) = 1 /\ C2_IsNotice(t, NewCalls(t)[1])
  /\ (With(t, T_NEED_PHOTO)' # <<>> /\ out'[t] # out[t])
       => approvals' = approvals /\ cards' = cards

\* C2 (as amended): with an approval destination configured, when
\* request_approval has fetched a reply history that holds no image, it
\* attempts exactly one ephemeral notice, addressed to the clicking user in
\* the origin thread; it posts no approval card and no confirmation and
\* leaves the registry as it is.  If the notice is accepted it is the
\* handler's only outbound message; if it is rejected the handler's only
\* other message is the error report to the origin thread.
C2_NoPhotoNotice ==
  /\ [](\A t \in Tasks : C2_Sent(t))
  /\ [][\A t \in Tasks : C2_Step(t)]_vars

\* the reminder was accepted and the handler has returned
C2_Witness ==
  \E t \in Tasks :
    /\ pc[t] = "done" /\ ev[t].kind = "request_approval"
    /\ Len(Messages(t)) = 1
    /\ C2_IsNotice(t, Messages(t)[1]) /\ Messages(t)[1].ok
    /\ approvals = EmptyMap /\ cards = EmptyMap

\* C2 (as stated): once the photo reminder is sent, it is the only outbound
\* message of the handler.
C2_OnlyTheNotice ==
  \A t \in Tasks : With(t, T_NEED_PHOTO) # <<>> => Len(Messages(t)) = 1

\* ---- C3
Decisions == {"approve_demo", "decline_demo"}

\* the labels of the annotations the handler of event t put on the card
C3_Annotated(t) ==
  { Last(c.blocks).text.label : c \in { c \in Range(out[t]) : c.api = "chat.update" } }

C3_Labels(t) ==
  C3_Annotated(t) \cup { c.text.label : c \in Range(With(t, T_NOTICE)) }

\* C3: for every decision event the verdict posted to the origin thread
\* follows the decision alone: a decline never posts the "proceed with minimal
\* demo" verdict, an approve never posts the "hold demo" verdict, and the
\* requester's private notice and the card annotation carry one and the same
\* label, the label of that decision.
C3_VerdictFollowsLabel ==
  \A t \in Tasks : ev[t].kind \in Decisions =>
    /\ ev[t].kind = "decline_demo" => With(t, T_APPROVED) = <<>>
    /\ ev[t].kind = "approve_demo" => With(t, T_DECLINED) = <<>>
    /\ Cardinality(C3_Labels(t)) <= 1
    /\ \A l \in C3_Labels(t) : includes(l, APPROVED) <=> ev[t].kind = "approve_demo"

\* a decline has run to its private notice
C3_Witness ==
  \E t \in Tasks :
    /\ ev[t].kind = "decline_demo" /\ pc[t] = "done"
    /\ With(t, T_DECLINED) # <<>>
    /\ With(t, T_NOTICE) # <<>> /\ Last(out[t]).text.label = LabelDeclined
    /\ C3_Annotated(t) = {LabelDeclined}

\* ---- C4
AllOk(t) == \A i \in DOMAIN out[t] : out[t][i].ok

\* the user may decide: on the allow-list, or no allow-list is configured
C4_MayDecide(user) == APPROVER_IDS = {} \/ user \in APPROVER_IDS

C4_Rewrite(t, c) ==
  LET kept == SelectSeq(ev[t].blocks, LAMBDA b : b.type # "actions")
  IN /\ c.api = "chat.update" /\ c.channel = ev[t].channel /\ c.ts = ev[t].ts
     /\ Len(c.blocks) = Len(kept) + 1
     /\ SubSeq(c.blocks, 1, Len(kept)) = kept
     /\ \A i \in DOMAIN c.blocks : c.blocks[i].type # "actions"
     /\ Last(c.blocks).type = "context"
     /\ Last(c.blocks).text.tmpl = T_ANNOTATION
     /\ Last(c.blocks).text.arg = <<ev[t].user>>

C4_VerdictPost(t, c) ==
  /\ c.api = "chat.postMessage"
  /\ c.channel = PChannel(t) /\ c.thread_ts = PThread(t)
  /\ c.text.tmpl = (IF ev[t].kind = "approve_demo" THEN T_APPROVED ELSE T_DECLINED)
  /\ c.text.item = PItem(t)

C4_NoticeTo(t, c) ==
  /\ c.api = "chat.postEphemeral" /\ c.text.tmpl = T_NOTICE
  /\ c.user = PRequester(t)
  /\ c.channel = PChannel(t) /\ c.thread_ts = PThread(t)
  /\ c.text.item = PItem(t)

\* C4: when a user on the approver allow-list, or any user if there is none,
\* triggers Approve or Decline and no platform call fails, the handler
\* acknowledges, rewrites the approval card in place without its action
\* blocks and with a decision annotation appended, posts the verdict to the
\* origin thread of the payload and sends the private notice to the requester
\* of the payload; the card then shows no controls (Decided).
C4_DecisionEffects ==
  \A t \in Tasks :
    (ev[t].kind \in Decisions /\ pc[t] = "done" /\ AllOk(t) /\ C4_MayDecide(ev[t].user)) =>
      /\ Len(out[t]) = 4
      /\ out[t][1].api = "ack"
      /\ C4_Rewrite(t, out[t][2])
      /\ C4_VerdictPost(t, out[t][3])
      /\ C4_NoticeTo(t, out[t][4])
      /\ ~HasActions(cards[ev[t].ts].blocks)

\* a listed approver has approved and every call went through
C4_Witness ==
  \E t \in Tasks :
    /\ ev[t].kind = "approve_demo" /\ pc[t] = "done" /\ AllOk(t)
    /\ APPROVER_IDS = {"U2"} /\ ev[t].user = "U2"
    /\ Len(out[t]) = 4 /\ HasActions(ev[t].blocks)

\* ---- C5
C5_Refused(t) ==
  /\ ev[t].kind \in Decisions
  /\ APPROVER_IDS # {} /\ ev[t].user \notin APPROVER_IDS

C5_RefusalNotice(t, c) ==
  /\ c.api = "chat.postEphemeral" /\ c.text.tmpl = T_ONLY_APPROVERS
  /\ c.user = ev[t].user /\ c.channel = ev[t].channel

\* C5: with an approver allow-list configured, an Approve or Decline by a
\* user who is not on it has one effect only, a private notice to that user:
\* the handler does not rewrite the card (its controls stay), posts no verdict
\* to the origin thread and does not notify the requester.
C5_UnauthorizedOnlyNotice ==
  /\ [](\A t \in Tasks : C5_Refused(t) =>
          /\ Len(out[t]) <= 2
          /\ Len(out[t]) >= 1 => out[t][1].api = "ack"
          /\ Len(out[t]) = 2 => C5_RefusalNotice(t, out[t][2])
          /\ (pc[t] = "done" /\ out[t][1].ok) => Len(out[t]) = 2)
  /\ [][\A t \in Tasks : (C5_Refused(t) /\ out'[t] # out[t]) =>
          cards' = cards /\ approvals' = approvals]_vars

\* a crew member outside the allow-list pressed Decline and was told so; the
\* card still shows its controls
C5_Witness ==
  \E t \in Tasks :
    /\ C5_Refused(t) /\ ev[t].kind = "decline_demo" /\ pc[t] = "done"
    /\ Len(out[t]) = 2 /\ out[t][2].ok
    /\ HasActions(cards[ev[t].ts].blocks)

\* ---- C6
\* the text of a rejection: the platform's error code, or the message of an
\* error that carries none
C6_ErrorText(e) == IF e.data_error # "" THEN e.data_error ELSE e.message

C6_FailedCardPost(t, i) ==
  i \in DOMAIN out[t] /\ IsCardPost(out[t][i]) /\ ~out[t][i].ok

C6_Report(t, c, e) ==
  /\ c.api = "chat.postMessage" /\ c.text.tmpl = T_COULD_NOT
  /\ c.channel = PChannel(t) /\ c.thread_ts = PThread(t)
  /\ c.text.arg = <<C6_ErrorText(e)>>

\* C6: if the post of the approval card is rejected, the handler sends the
\* error text of that rejection to the origin thread and does nothing else:
\* it writes no registry entry and posts no confirmation, so the request stays
\* in Requested.
C6_CardPostFailure ==
  /\ [](\A t \in Tasks : \A i \in 1..Len(out[t]) : C6_FailedCardPost(t, i) =>
          /\ Len(out[t]) <= i + 1
          /\ Len(out[t]) = i + 1 => C6_Report(t, out[t][i + 1], out[t][i].err)
          /\ pc[t] \in Final => Len(out[t]) = i + 1
          /\ With(t, T_SENT) = <<>>)
  /\ [][\A t \in Tasks :
          (out'[t] # out[t] /\ \E i \in 1..Len(out'[t]) : C6_FailedCardPost(t, i)')
            => approvals' = approvals /\ cards' = cards]_vars

\* the card post was rejected with not_in_channel and the origin thread was told
C6_Witness ==
  \E t \in Tasks :
    /\ pc[t] = "done" /\ C6_FailedCardPost(t, Len(out[t]) - 1)
    /\ out[t][Len(out[t]) - 1].err = ErrApi
    /\ Last(out[t]).ok /\ Last(out[t]).text.arg = <<"not_in_channel">>
    /\ approvals = EmptyMap

\* ---- C7
\* the handlers whose approval card the platform accepted
C7_Posted ==
  { t \in Tasks : \E i \in 1..Len(out[t]) : IsCardPost(out[t][i]) /\ out[t][i].ok }

C7_Threads == { <<PChannel(t), PThread(t)>> : t \in C7_Posted }

\* C7: every request_approval trigger whose card is accepted yields its own
\* card and its own registry entry under the identifier the platform gave
\* that card, so two triggers for the same thread with a photo present leave
\* two cards and two entries; no later trigger overwrites or removes an
\* entry.
C7_OneEntryPerCard ==
  /\ [](/\ DOMAIN approvals = DOMAIN cards
        /\ \A th \in C7_Threads :
             Cardinality({ k \in DOMAIN approvals :
                            <<approvals[k].channel, approvals[k].thread_ts>> = th })
               = Cardinality({ t \in C7_Posted : <<PChannel(t), PThread(t)>> = th }))
  /\ [][\A k \in DOMAIN approvals :
          k \in DOMAIN approvals' /\ approvals'[k] = approvals[k]]_vars

\* two triggers for one thread have both had their card accepted
C7_Witness ==
  \E t, u \in C7_Posted :
    /\ t # u
    /\ PChannel(t) = PChannel(u) /\ PThread(t) = PThread(u)
    /\ pc[t] = "done" /\ pc[u] = "done"
    /\ Cardinality(DOMAIN approvals) = 2 /\ Cardinality(DOMAIN cards) = 2

\* ---- C8
Calls(t, api) == SelectSeq(out[t], LAMBDA c : c.api = api)

\* question t created a session resource
Created(t) == \E i \in 1..Len(out[t]) : out[t][i].api = "assistants.create" /\ out[t][i].ok

\* question t was asked when every earlier question had been answered
AskedAlone(t) == ev[t].kind = "askSla" /\ ev[t].after = 1..(t - 1)

\* u is asked right after t: t has been answered, nothing else is going on
C8_OneAfterTheOther(t, u) == u = t + 1 /\ AskedAlone(t) /\ AskedAlone(u)

C8_Sequential(t, u) ==
  (C8_OneAfterTheOther(t, u) /\ Created(t)) =>
    /\ qa[u].storeId = qa[t].storeId =>
         /\ Calls(u, "vectorStores.retrieve") = <<>>
         /\ Calls(u, "assistants.create") = <<>>
         /\ qa[u].assistant_id = qa[t].assistant_id
    /\ qa[u].storeId \notin {"", qa[t].storeId} =>
         /\ qa[u].assistant_id # qa[t].assistant_id
         /\ out[u] # <<>> => out[u][1].api = "vectorStores.retrieve"
         /\ (Len(out[u]) >= 2 /\ out[u][1].ok) => out[u][2].api = "assistants.create"
         /\ Created(u) => assistants[qa[u].assistant_id] = qa[u].storeId
         /\ (pc[u] \in Final /\ ~Created(u)) =>
              qa[u].answer.tmpl = A_SNAG /\ qa[u].assistant_id = 0

\* the write of the cache: with a successful creation only, of the new id
\* beside the identifier the question read
C8_CacheWrite(u) ==
  out'[u] # out[u] =>
    IF Last(out'[u]).api = "assistants.create" /\ Last(out'[u]).ok
    THEN /\ qa'[u].assistant_id \notin DOMAIN assistants
         /\ assistants' = (qa'[u].assistant_id :> qa[u].storeId) @@ assistants
         /\ assistantCache' = [id |-> qa'[u].assistant_id, storeId |-> qa[u].storeId]
    ELSE assistantCache' = assistantCache /\ assistants' = assistants

\* C8 (as amended): for two questions asked one after the other, the first
\* of which created a session resource: if the document-collection identifier
\* is the same for both, the second makes no preflight and no creation and
\* uses the cached id; if the identifier was changed to another one, the
\* second does not use the cached id but runs the preflight and the creation
\* against the new identifier, and when both succeed a new resource exists
\* and the cache holds its id beside the new identifier; when either is
\* rejected nothing is created, the cache is left as it was and the question
\* gets the "hit a snag" text.
C8_CacheBySequence ==
  /\ [](\A t, u \in Tasks : C8_Sequential(t, u))
  /\ [][\A u \in Tasks : C8_CacheWrite(u)]_vars

\* the identifier was changed between two questions and each created its own
\* session resource
C8_Witness ==
  /\ C8_OneAfterTheOther(1, 2) /\ pc[1] = "done" /\ pc[2] = "done"
  /\ Created(1) /\ Created(2)
  /\ qa[1].storeId = "vs_1" /\ qa[2].storeId = "vs_2"
  /\ qa[1].assistant_id # qa[2].assistant_id
  /\ assistantCache = [id |-> qa[2].assistant_id, storeId |-> "vs_2"]

\* C8 (as stated): whenever the identifier was changed to another one between
\* two questions asked one after the other, the second has created a new
\* session resource and the cache holds the new id beside the new identifier.
C8_ChangeAlwaysCreates ==
  \A t, u \in Tasks :
    (/\ C8_OneAfterTheOther(t, u) /\ Created(t) /\ pc[u] \in Final
     /\ qa[u].storeId \notin {"", qa[t].storeId}) =>
      /\ Created(u)
      /\ assistantCache = [id |-> qa[u].assistant_id, storeId |-> qa[u].storeId]

\* ---- C9
\* two questions are past the cache lookup, both having found the cache empty
C9_Witness ==
  /\ storeChanges = 0
  /\ pc[1] = "getAssistantId_create" /\ pc[2] = "getAssistantId_create"
  /\ qa[1].sawCache.id = 0 /\ qa[2].sawCache.id = 0
  /\ qa[1].storeId = qa[2].storeId

\* C9: under any interleaving of concurrently handled questions against one
\* unchanged document-collection identifier, the session resource is created
\* at most once per process.
C9_CreatedAtMostOnce ==
  storeChanges = 0 => Cardinality(DOMAIN assistants) <= 1

\* ---- C10
\* askSla has returned because the run was in no terminal state when more
\* than the 90 s window had passed
C10_TimedOut(t) ==
  /\ pc[t] \in Final /\ qa[t].answer # NoText
  /\ qa[t].status \notin {"completed", "failed", "cancelled", "expired"}
  /\ qa[t].elapsed > 90000

\* askSla has returned because a provider call was rejected or the run ended
\* failed, cancelled or expired
C10_ProviderFailure(t) ==
  /\ pc[t] \in Final /\ ~C10_TimedOut(t)
  /\ \/ \E i \in 1..Len(out[t]) : ~out[t][i].ok
     \/ qa[t].status \in {"failed", "cancelled", "expired"}

\* C10 (as amended): when the polled job reaches no terminal state within
\* the timeout window, askSla logs a timeout-specific error and returns the
\* same "hit a snag" text it returns for provider-reported failures; that
\* text differs from the "not configured" text.
C10_TimeoutIsASnag ==
  \A t \in Tasks :
    /\ C10_TimedOut(t) =>
         /\ qa[t].logged = <<E_TIMEOUT>>
         /\ qa[t].answer = Text(A_SNAG, <<>>, <<>>, <<>>)
         /\ qa[t].answer.tmpl # A_NOT_CONFIGURED
    /\ C10_ProviderFailure(t) =>
         /\ qa[t].logged # <<E_TIMEOUT>>
         /\ qa[t].answer = Text(A_SNAG, <<>>, <<>>, <<>>)

\* a run still in progress after two polls, the second one late
C10_Witness ==
  \E t \in Tasks :
    /\ C10_TimedOut(t) /\ qa[t].status = "in_progress"
    /\ qa[t].polls = 2 /\ Len(Calls(t, "runs.retrieve")) = 2

\* C10 (as stated): on a timeout askSla returns a text that is neither the
\* "not configured" text nor the "hit a snag" text.
C10_TimeoutTextIsSpecific ==
  \A t \in Tasks :
    C10_TimedOut(t) => qa[t].answer.tmpl \notin {A_NOT_CONFIGURED, A_SNAG}

\* ---- C11
\* askSla is called for question t in this step
C11_Asked(t) == pc[t] = "idle" /\ pc'[t] # "idle" /\ ev'[t].kind = "askSla"

\* the identifier was there at startup and is gone when the question is
\* asked: the call returns at once, with the text of the catch block
C11_Witness ==
  \E t \in Tasks :
    /\ ev[t].kind = "askSla" /\ pc[t] = "done"
    /\ brainReady /\ oai /\ qa[t].storeId = "" /\ storeChanges = 1
    /\ out[t] = <<>>
    /\ qa[t].logged = <<E_NOT_CONFIGURED>>
    /\ qa[t].answer = Text(A_SNAG, <<>>, <<>>, <<>>)

\* C11: whenever the provider credential or the document-collection
\* identifier is absent at the time a question is asked (the identifier may
\* have been present at startup and removed later), askSla returns the
\* "not configured" text and no exception reaches the caller.
C11_AbsentIsNotConfigured ==
  [][ \A t \in Tasks :
        (C11_Asked(t) /\ (~oai \/ SLA_VECTOR_STORE_ID = "")) =>
          /\ pc'[t] = "done"
          /\ qa'[t].answer = Text(A_NOT_CONFIGURED, <<>>, <<>>, <<>>) ]_vars

\* ---- C12
\* the texts askSla may return
C12_Categories == {A_NOT_CONFIGURED, A_SNAG, A_NO_CLAUSE, A_ANSWER}

C12_SnagText(a) == a.tmpl = A_SNAG /\ a.item = <<>> /\ a.arg = <<>> /\ a.body = <<>>

\* the provider steps of askSla
C12_ProviderSteps ==
  {"vectorStores.retrieve", "assistants.create", "threads.create", "runs.create",
   "runs.retrieve", "messages.list"}

\* C12: a rejection at any provider step (collection retrieval, session
\* creation, thread creation, job creation, status poll, response listing)
\* and any terminal job status other than completed (failed, cancelled,
\* expired) ends askSla at once with the "hit a snag" text; whatever happens
\* askSla returns one of the texts not configured, hit a snag, no clear
\* clause or an answer, and it never leaves by an exception.
C12_FailuresAreSnags ==
  \A t \in Tasks : ev[t].kind = "askSla" =>
    /\ pc[t] # "threw"
    /\ \A i \in 1..Len(out[t]) : out[t][i].api \in C12_ProviderSteps
    /\ pc[t] = "done" =>
         /\ qa[t].answer.tmpl \in C12_Categories
         /\ qa[t].answer.tmpl = A_ANSWER => qa[t].answer.body # <<>>
    /\ \A i \in 1..Len(out[t]) : ~out[t][i].ok =>
         /\ i = Len(out[t])
         /\ pc[t] = "done"
         /\ C12_SnagText(qa[t].answer)
    /\ qa[t].status \in {"failed", "cancelled", "expired"} =>
         /\ pc[t] = "done"
         /\ C12_SnagText(qa[t].answer)

\* one question was refused at the response listing, the last provider step,
\* and the job of another one was cancelled; both got the snag text
C12_Witness ==
  \E t, u \in Tasks :
    /\ pc[t] = "done" /\ pc[u] = "done" /\ out[t] # <<>> /\ out[u] # <<>>
    /\ Last(out[t]).api = "messages.list" /\ ~Last(out[t]).ok
    /\ qa[u].status = "cancelled" /\ AllOk(u)
    /\ C12_SnagText(qa[t].answer) /\ C12_SnagText(qa[u].answer)

\* ---- C13
\* the texts of the text-typed blocks of a turn, one after the other
RECURSIVE C13_Join(_)
C13_Join(texts) ==
  IF texts = <<>> THEN <<>> ELSE texts[1].value \o C13_Join(Tail(texts))

\* the most recent turn of a response listing (newest first), <<>> if none
C13_LatestTurn(data) == IF Len(data) = 0 THEN <<>> ELSE Head(data)

C13_Completed(t) ==
  /\ ev[t].kind = "askSla" /\ pc[t] = "done"
  /\ qa[t].status = "completed"
  /\ out[t] # <<>> /\ Last(out[t]).api = "messages.list" /\ Last(out[t]).ok

\* C13: when the job completes and the responses are listed, askSla returns
\* the texts of the text-typed content blocks of the most recent turn, in
\* their order and without the blocks of other types; if there is no turn, no
\* block or no text in them, it returns the "no clear clause" text, so a
\* completed job never yields an empty string.
C13_ExtractsLatestText ==
  \A t \in Tasks : C13_Completed(t) =>
    LET texts == SelectSeq(C13_LatestTurn(qa[t].data), LAMBDA b : b.type = "text")
        joined == C13_Join(texts)
    IN /\ joined # <<>> => qa[t].answer.tmpl = A_ANSWER /\ qa[t].answer.body = joined
       /\ joined = <<>> => qa[t].answer = Text(A_NO_CLAUSE, <<>>, <<>>, <<>>)
       /\ qa[t].answer # NoText
       /\ qa[t].answer.tmpl = A_ANSWER => qa[t].answer.body # <<>>

\* a turn of an image block and two text blocks was answered with the two
\* texts, and a turn whose only text is empty with the fallback
C13_Witness ==
  \E t, u \in Tasks :
    /\ C13_Completed(t) /\ C13_Completed(u)
    /\ qa[t].data = << <<ContentImage, ContentText(<<"A">>), ContentText(<<"B">>)>> >>
    /\ qa[t].answer.body = <<"A", "B">>
    /\ qa[u].data = << <<ContentText(<<>>)>> >>
    /\ qa[u].answer.tmpl = A_NO_CLAUSE

\* ---- C14
IsMention(t) == ev[t].kind = "app_mention"

\* the handler of mention t went past the scope check
C14_Serviced(t) == IsMention(t) /\ ~(pc[t] = "done" /\ out[t] = <<>>)

\* C14 (as amended): for every channel and every configuration the scope
\* filter lets a mention through exactly when the channel is on the
\* allow-list, if an allow-list is configured, and always otherwise; neither
\* a test-channel identifier nor an allow-all flag is consulted, so nothing
\* overrides a configured allow-list.
C14_AllowListOrAny ==
  \A t \in Tasks : IsMention(t) =>
    (C14_Serviced(t) <=> (ALLOWED_CHANNELS = {} \/ ev[t].channel \in ALLOWED_CHANNELS))

\* with the allow-all flag on and a test channel set, a mention in a channel
\* outside the allow-list was dropped
C14_Witness ==
  \E t \in Tasks :
    /\ IsMention(t) /\ ~C14_Serviced(t)
    /\ ALLOW_ALL /\ TEST_CHANNEL = "C2"
    /\ ALLOWED_CHANNELS = {"C1"} /\ ev[t].channel = "C2"

\* C14 (as stated): allow-list configured: membership; otherwise a test
\* channel configured: equality with it; otherwise every channel.
C14_CanonicalPrecedence ==
  \A t \in Tasks : IsMention(t) =>
    (C14_Serviced(t) <=>
       IF ALLOWED_CHANNELS # {} THEN ev[t].channel \in ALLOWED_CHANNELS
       ELSE IF TEST_CHANNEL # "" THEN ev[t].channel = TEST_CHANNEL
       ELSE TRUE)

\* ---- C15
\* the text parseItem and PROMPT_RE are given: the event text without its
\* first mention, trimmed
Said(t) == MentionText(ev[t].text)

\* the handler of mention t has classified the text and is at a later await
Classified(t) ==
  IsMention(t) /\ pc[t] \in {"app_mention_prompt", "app_mention_hint", "app_mention_catch"}

\* a character a removal clause may hold: letter, digit, hyphen, whitespace
C15_ClauseChar(c) ==
  c \in Range(LOWER) \cup Range(UPPER) \cup DIGITS \cup {"-", " ", "\t", "\n"}

\* the longest run of clause characters of s that begins at from
C15_Run(s, from) ==
  LET stop == { k \in from..Len(s) : ~C15_ClauseChar(s[k]) }
  IN SubSeq(s, from, IF stop = {} THEN Len(s) ELSE Min(stop) - 1)

\* s has "remove X" at p: the word in any letter case, then whitespace, then
\* at least one more clause character
C15_ClauseAt(s, p) ==
  /\ p \in Occurrences(toLowerCase(s), <<"r","e","m","o","v","e">>)
  /\ Len(C15_Run(s, p + 6)) >= 2
  /\ C15_Run(s, p + 6)[1] \in {" ", "\t", "\n"}

\* what the specification says the item of a text is
C15_Item(s) ==
  LET at == { p \in 1..Len(s) : C15_ClauseAt(s, p) }
  IN IF at # {} THEN trim(C15_Run(s, Min(at) + 6))
     ELSE IF includes(toLowerCase(s), <<"v","a","n","i","t","y">>) THEN <<"v","a","n","i","t","y">>
     ELSE IF includes(toLowerCase(s), <<"c","a","b","i","n","e","t">>) THEN <<"c","a","b","i","n","e","t">>
     ELSE <<"i","t","e","m">>

C16_Witness ==
  \E t \in Tasks : \E p \in prompts :
    /\ IsMention(t) /\ pc[t] = "done" /\ p.ts = ev[t].ts
    /\ Said(t) = <<"r","e","m","o","v","e"," "," ","!">>
    /\ JSONget(p.value, "item") = <<>>

\* C16: parseItem never fails and returns a non-empty item for every text,
\* also when "remove" is followed by whitespace, hyphens or punctuation only,
\* and for an empty text.
C16_ItemNeverEmpty ==
  /\ \A t \in Tasks : Classified(t) => loc[t].item # <<>>
  /\ \A p \in prompts : JSONget(p.value, "item") # <<>>

\* ---- C18
C18_Keywords ==
  { <<"r","e","m","o","v","e">>, <<"d","e","m","o">>, <<"c","a","b","i","n","e","t">>,
    <<"v","a","n","i","t","y">>, <<"a","p","p","r","o","v","a","l">>,
    <<"a","p","p","r","o","v","e">> }

C18_TearOut == <<"t","e","a","r","-","o","u","t">>

C18_Contains(s, words) == \E w \in words : includes(toLowerCase(s), w)

\* a "Request approval" control is offered for mention t
C18_Offered(t) == \E p \in prompts : p.ts = ev[t].ts /\ p.channel = ev[t].channel

\* a reply of mention t that carries the "Request approval" control
C18_IsPrompt(c) ==
  /\ c.api = "say"
  /\ \E i \in DOMAIN c.blocks : c.blocks[i].type = "actions"

C18_Demo(t, words) ==
  /\ Classified(t) => (loc[t].looksLikeDemo <=> C18_Contains(Said(t), words))
  /\ (IsMention(t) /\ Len(out[t]) >= 2) =>
       (C18_IsPrompt(out[t][2]) <=> C18_Contains(Said(t), words))
  /\ (IsMention(t) /\ C18_Offered(t)) => C18_Contains(Said(t), words)

\* C18 (as amended): a text is classified as a demo/removal request exactly
\* when it contains, in any letter case, one of remove, demo, cabinet, vanity,
\* approval, approve, and each of these alone brings the "Request approval"
\* prompt; "tear-out" is not a keyword, a text with it alone gets the hint.
C18_SixKeywords ==
  \A t \in Tasks : C18_Demo(t, C18_Keywords)

\* "approval" alone brought the prompt
C18_Witness ==
  \E t \in Tasks :
    /\ IsMention(t) /\ pc[t] = "done" /\ C18_Offered(t)
    /\ Said(t) = <<"a","p","p","r","o","v","a","l">>

\* C18 (as stated): the keywords are remove, demo, cabinet, vanity, tear-out,
\* approval, approve.
C18_SevenKeywords ==
  \A t \in Tasks : C18_Demo(t, C18_Keywords \cup {C18_TearOut})

\* ---- C17
C17_Text == <<"p","l","e","a","s","e"," ","r","e","m","o","v","e"," ","t","h","e"," ","v","a","n","i","t","y">>

\* the scenario: that mention, in a channel in scope, with the relay off
C17_Scenario(t) ==
  /\ IsMention(t) /\ Said(t) = C17_Text
  /\ (ALLOWED_CHANNELS = {} \/ ev[t].channel \in ALLOWED_CHANNELS)
  /\ ~brainReady

\* c is a reply in the thread of mention t with the photo-and-approval prompt
\* and one "Request approval" control whose payload names the mention's
\* channel and thread and the given item
C17_Prompt(t, c, item) ==
  /\ c.api = "say" /\ c.channel = ev[t].channel /\ c.thread_ts = ev[t].ts
  /\ c.text.tmpl = M_PROMPT
  /\ \E i \in DOMAIN c.blocks :
       /\ c.blocks[i].type = "actions"
       /\ Len(c.blocks[i].elements) = 1
       /\ c.blocks[i].elements[1].action_id = "request_approval"
       /\ JSONget(c.blocks[i].elements[1].value, "channel") = ev[t].channel
       /\ JSONget(c.blocks[i].elements[1].value, "thread_ts") = ev[t].ts
       /\ JSONget(c.blocks[i].elements[1].value, "item") = item

C17_Reply(t, item) ==
  C17_Scenario(t) =>
    /\ pc[t] \in {"app_mention_join", "app_mention_prompt"} \/ Len(out[t]) >= 2
    /\ Len(out[t]) >= 2 => C17_Prompt(t, out[t][2], item)
    /\ (Len(out[t]) >= 2 /\ out[t][2].ok) =>
         /\ pc[t] = "done" /\ Len(out[t]) = 2
         /\ \E p \in prompts :
              /\ p.channel = ev[t].channel /\ p.ts = ev[t].ts
              /\ p.value = out[t][2].blocks[Len(out[t][2].blocks)].elements[1].value

\* C17 (as amended): a mention "please remove the vanity" in an in-scope
\* channel with the QA relay disabled is answered, in the mention's thread,
\* with the photo-and-approval prompt and a "Request approval" control whose
\* payload carries the mention's channel, the mention's thread and the item
\* "the vanity", the words captured after "remove".
C17_PromptForTheVanity ==
  \A t \in Tasks : C17_Reply(t, <<"t","h","e"," ","v","a","n","i","t","y">>)

\* the prompt was accepted and the platform shows the control
C17_Witness ==
  \E t \in Tasks :
    /\ C17_Scenario(t) /\ pc[t] = "done" /\ Len(out[t]) = 2 /\ out[t][2].ok
    /\ \E p \in prompts :
         /\ p.ts = ev[t].ts /\ p.channel = ev[t].channel
         /\ JSONget(p.value, "item") = <<"t","h","e"," ","v","a","n","i","t","y">>
         /\ JSONget(p.value, "thread_ts") = ev[t].ts

\* C17 (as stated): the payload of the control carries item = "vanity".
C17_PromptForVanity ==
  \A t \in Tasks : C17_Reply(t, <<"v","a","n","i","t","y">>)

\* ---- C19
\* the replies the handler of mention t has sent, in order
Says(t) == SelectSeq(out[t], LAMBDA c : c.api = "say")

C19_DemoLike(t) == C18_Contains(Said(t), C18_Keywords)

\* c is the answer of the relay, or its failure text, as a reply of its own
\* in the thread of mention t
C19_IsAnswer(t, c) ==
  /\ c.channel = ev[t].channel /\ c.thread_ts = ev[t].ts
  /\ c.blocks = <<>>
  /\ c.text = qa[t].answer
  /\ c.text.tmpl \in {A_ANSWER, A_NO_CLAUSE, A_SNAG}

C19_InThread(t, c) == c.channel = ev[t].channel /\ c.thread_ts = ev[t].ts

C19_WithRelay(t) ==
  LET says == Says(t)
  IN /\ pc[t] \in Final => says # <<>>
     /\ says # <<>> => C19_IsAnswer(t, says[1])
     /\ \A i \in 1..Len(says) : C18_IsPrompt(says[i]) =>
          /\ i = 2 /\ says[1].ok
          /\ C19_InThread(t, says[i])
          /\ C19_DemoLike(t)
     /\ (says # <<>> /\ says[1].ok /\ C19_DemoLike(t)) =>
          \/ pc[t] = "app_mention_prompt" /\ Len(says) = 1
          \/ Len(says) >= 2 /\ C18_IsPrompt(says[2])
     /\ (says # <<>> /\ says[1].ok /\ ~C19_DemoLike(t)) =>
          pc[t] = "done" /\ Len(says) = 1

\* C19: for a mention in an in-scope channel with the QA relay configured,
\* the answer of the relay (or its failure text) is sent to the mention's
\* thread as a reply of its own before anything else, demo-like text or not;
\* once that reply is accepted the "Request approval" control is sent next if
\* and only if the text is demo-like; with or without the relay no control is
\* ever sent or shown for a text that is not demo-like.
C19_AnswerThenPrompt ==
  \A t \in Tasks : IsMention(t) =>
    /\ brainReady => C19_WithRelay(t)
    /\ \A i \in 1..Len(out[t]) : C18_IsPrompt(out[t][i]) => C19_DemoLike(t)
    /\ C18_Offered(t) => C19_DemoLike(t)

\* a demo-like mention got the relay's answer first and the control second
C19_Witness ==
  \E t \in Tasks :
    /\ IsMention(t) /\ brainReady /\ pc[t] = "done" /\ C19_DemoLike(t)
    /\ Len(Says(t)) = 2 /\ Says(t)[1].ok /\ Says(t)[2].ok
    /\ Says(t)[1].text.tmpl = A_ANSWER /\ Says(t)[1].blocks = <<>>
    /\ C18_IsPrompt(Says(t)[2]) /\ C18_Offered(t)

\* ---- C20
C20_MoreInfo(t) == ev[t].kind = "request_more_info"

\* the fixed checklist, posted to the origin thread the payload names
C20_Checklist(t, c) ==
  /\ c.api = "chat.postMessage"
  /\ c.channel = PChannel(t) /\ c.thread_ts = PThread(t)
  /\ c.text = Text(T_MORE_INFO, PItem(t), <<>>, <<>>)
  /\ c.blocks = <<>>

\* the controls a card shows
C20_Controls(blocks) ==
  { b.action_id : b \in UNION { Range(blocks[i].elements) : i \in DOMAIN blocks } }

\* a decision has rewritten the card with this message identifier
C20_Decided(ts) ==
  \E u \in Tasks :
    /\ ev[u].kind \in Decisions /\ ev[u].ts = ts
    /\ \E i \in 1..Len(out[u]) : out[u][i].api = "chat.update" /\ out[u][i].ok

C20_Calls(t) ==
  /\ Len(out[t]) <= 2
  /\ Len(out[t]) >= 1 => out[t][1].api = "ack"
  /\ Len(out[t]) = 2 => out[t][1].ok /\ C20_Checklist(t, out[t][2])
  /\ (pc[t] = "done" /\ out[t][1].ok) => Len(out[t]) = 2

C20_StillPending(t) ==
  ~C20_Decided(ev[t].ts) =>
    /\ cards[ev[t].ts].blocks = ev[t].blocks
    /\ {"approve_demo", "decline_demo", "request_more_info"} \subseteq C20_Controls(cards[ev[t].ts].blocks)
    /\ ev[t].ts \in DOMAIN approvals

\* C20: "Ask for more info" is acknowledged and then posts the fixed
\* checklist to the origin thread named in the payload, and changes nothing
\* else: no step of the handler touches the approval card, the registry or
\* the prompts, so the card keeps its Approve, Decline and more-info controls
\* and the request stays in PendingApproval, open to a later Approve or
\* Decline.
C20_MoreInfoOnlyPosts ==
  /\ [](\A t \in Tasks : C20_MoreInfo(t) => C20_Calls(t) /\ C20_StillPending(t))
  /\ [][\A t \in Tasks :
          (ev'[t].kind = "request_more_info" /\ (pc'[t] # pc[t] \/ out'[t] # out[t])) =>
            /\ cards' = cards /\ approvals' = approvals /\ prompts' = prompts
            /\ assistantCache' = assistantCache]_vars

\* the checklist was posted and the card still offers the three controls
C20_Witness ==
  \E t \in Tasks :
    /\ C20_MoreInfo(t) /\ pc[t] = "done" /\ AllOk(t) /\ Len(out[t]) = 2
    /\ C20_Checklist(t, out[t][2])
    /\ C20_Controls(cards[ev[t].ts].blocks) = {"approve_demo", "decline_demo", "request_more_info"}
    /\ DOMAIN approvals = {ev[t].ts}

\* ------------------------------------------------------------------- C21
\* C21: whatever single outbound call is rejected while an event is handled
\* (the acknowledgement and the apology of the error path included), the
\* handler returns normally: no exception escapes it
C21_NoExceptionEscapes ==
  \A t \in Tasks : pc[t] # "threw"

\* the acknowledgement of a click is the one call rejected in the run, and
\* the rejection has left the handler as an exception
C21_Witness ==
  \E t \in Tasks :
    /\ ev[t].kind \in {"request_approval", "approve_demo", "decline_demo", "request_more_info"}
    /\ pc[t] = "threw"
    /\ Len(out[t]) = 1
    /\ out[t][1].api = "ack"
    /\ ~out[t][1].ok
    /\ failures = 1

\* ------------------------------------------------------------------- C22
\* the arguments of a call, without how it settled
C22_Sent(c) == [c EXCEPT !.ok = TRUE, !.err = NoErr]

\* the calls of a click on a card, from the event e (control payload, clicking
\* user, card message) and the approver allow-list alone
C22_Calls(e, approvers) ==
  LET channel   == JSONget(e.value, "channel")
      thread_ts == JSONget(e.value, "thread_ts")
      item      == JSONget(e.value, "item")
      requester == JSONget(e.value, "requester")
      label     == IF e.kind = "approve_demo" THEN LabelApproved ELSE LabelDeclined
      annotated == FilterActions(e.blocks)
                     \o << Block("context", Text(T_ANNOTATION, <<>>, label, <<e.user>>), <<>>) >>
  IN IF e.kind = "request_more_info"
     THEN << Ack(NoErr),
             Call("chat.postMessage", channel, NoTs, thread_ts, NoUser,
                  Text(T_MORE_INFO, item, <<>>, <<>>), <<>>, NoErr) >>
     ELSE IF approvers # {} /\ e.user \notin approvers
     THEN << Ack(NoErr),
             Call("chat.postEphemeral", e.channel, NoTs, NoTs, e.user,
                  Text(T_ONLY_APPROVERS, <<>>, <<>>, <<>>), <<>>, NoErr) >>
     ELSE << Ack(NoErr),
             Call("chat.update", e.channel, e.ts, NoTs, NoUser,
                  Text(T_RECORDED, <<>>, label, <<>>), annotated, NoErr),
             Call("chat.postMessage", channel, NoTs, thread_ts, NoUser,
                  Text(IF e.kind = "approve_demo" THEN T_APPROVED ELSE T_DECLINED,
                       item, <<>>, <<>>), <<>>, NoErr),
             Call("chat.postEphemeral", channel, NoTs, thread_ts, requester,
                  Text(T_NOTICE, item, label, <<>>), <<>>, NoErr) >>

\* C22: the calls of the Approve, Decline and "Ask for more info" handlers are
\* determined by the triggering event and the configuration, whatever the
\* registry holds (populated, or empty after a restart): they are the calls
\* C22_Calls gives, in order, up to the first one rejected, and all of them
\* when none is rejected
C22_RegistryIndependent ==
  \A t \in Tasks :
    ev[t].kind \in Decisions \cup {"request_more_info"} =>
      LET want == C22_Calls(ev[t], APPROVER_IDS)
      IN /\ Len(out[t]) <= Len(want)
         /\ \A i \in DOMAIN out[t] :
              /\ C22_Sent(out[t][i]) = want[i]
              /\ (i < Len(out[t]) => out[t][i].ok)
         /\ (pc[t] \in Final /\ AllOk(t)) => Len(out[t]) = Len(want)

\* a decision was handled to its end, card rewrite, verdict and notice, by a
\* process whose registry does not hold the card (it was restarted)
C22_Witness ==
  \E t \in Tasks :
    /\ ev[t].kind \in Decisions
    /\ pc[t] = "done"
    /\ AllOk(t)
    /\ Len(out[t]) = 4
    /\ ev[t].ts \in DOMAIN cards
    /\ ev[t].ts \notin DOMAIN approvals

\* ------------------------------------------------------------------- C23
C23_Request(t) == ev[t].kind = "request_approval" /\ APPROVAL_CHANNEL = ""

\* the plain explanation, in the origin thread
C23_Explanation(t, c) ==
  /\ c.api = "chat.postMessage"
  /\ c.channel = PChannel(t)
  /\ c.thread_ts = PThread(t)
  /\ c.text = Text(T_NO_CHANNEL, <<>>, <<>>, <<>>)
  /\ c.blocks = <<>>

\* C23: without an approvals channel request_approval, once it has
\* acknowledged the click, sends the plain explanation to the origin thread and
\* returns normally; it fetches no history, posts no card, writes no registry
\* entry and sends no confirmation (if the explanation is rejected, the error
\* report to the origin thread is all that follows)
C23_NoChannelExplained ==
  /\ APPROVAL_CHANNEL = "" => (approvals = EmptyMap /\ cards = EmptyMap)
  /\ \A t \in Tasks :
       C23_Request(t) =>
         /\ Len(out[t]) <= 3
         /\ \A i \in DOMAIN out[t] :
              /\ i = 1 => out[t][i].api = "ack"
              /\ i = 2 => (out[t][1].ok /\ C23_Explanation(t, out[t][i]))
              /\ i = 3 => /\ ~out[t][2].ok
                          /\ out[t][i].api = "chat.postMessage"
                          /\ out[t][i].text.tmpl = T_COULD_NOT
                          /\ out[t][i].channel = PChannel(t)
                          /\ out[t][i].thread_ts = PThread(t)
              /\ ~IsCardPost(out[t][i])
              /\ out[t][i].text.tmpl # T_SENT
              /\ out[t][i].api # "conversations.replies"
         /\ (pc[t] \in Final /\ out[t][1].ok) => (pc[t] = "done" /\ Len(out[t]) >= 2)
         /\ (pc[t] = "done" /\ AllOk(t)) => Len(out[t]) = 2

\* a request was handled without an approvals channel: acknowledged, explained
\* in the origin thread, and nothing else
C23_Witness ==
  \E t \in Tasks :
    /\ C23_Request(t)
    /\ pc[t] = "done"
    /\ Len(out[t]) = 2
    /\ AllOk(t)
    /\ C23_Explanation(t, out[t][2])
    /\ approvals = EmptyMap

\* ------------------------------------------------------------------- C24
\* positions of the history fetch, the card post and the confirmation among
\* the calls of event t
C24_Fetches(t)  == { i \in DOMAIN out[t] : out[t][i].api = "conversations.replies" }
C24_Cards(t)    == { i \in DOMAIN out[t] : IsCardPost(out[t][i]) }
C24_Confirms(t) ==
  { i \in DOMAIN out[t] : out[t][i].api = "chat.postMessage" /\ out[t][i].text.tmpl = T_SENT }

\* the record of the request of event t
C24_Record(t) ==
  [channel |-> PChannel(t), thread_ts |-> PThread(t),
   requester |-> ev[t].user, item |-> PItem(t)]

\* the registry holds the record of the request of event t
C24_Filed(t) == \E k \in DOMAIN approvals : approvals[k] = C24_Record(t)

C24_Order(t) ==
  LET fetch   == C24_Fetches(t)
      card    == C24_Cards(t)
      confirm == C24_Confirms(t)
  IN /\ Cardinality(fetch) <= 1
     /\ Cardinality(card) <= 1
     /\ Cardinality(confirm) <= 1
     /\ \A i \in card : \E j \in fetch : j < i /\ out[t][j].ok
     /\ \A i \in card : out[t][i].ok => C24_Filed(t)
     /\ \A i \in confirm : \E j \in card : j < i /\ out[t][j].ok
     /\ \A i \in confirm : out[t][i].channel = PChannel(t) /\ out[t][i].thread_ts = PThread(t)

\* the registry is written in the step in which the card post of some request
\* resolves, before that request's confirmation is sent
C24_WriteStep ==
  approvals' # approvals =>
    \E t \in Tasks :
      /\ ev[t].kind = "request_approval"
      /\ Len(NewCalls(t)) = 1
      /\ IsCardPost(NewCalls(t)[1])
      /\ NewCalls(t)[1].ok
      /\ C24_Confirms(t) = {}
      /\ pc'[t] = "request_approval_confirm"
      /\ \E k \in DOMAIN approvals' \ DOMAIN approvals :
           approvals' = (k :> C24_Record(t)) @@ approvals

\* C24: within one request_approval task the thread history is fetched (and
\* the photo verified) before the card is posted, the registry entry is
\* written when the card post has succeeded, and the confirmation is posted
\* to the origin thread after that, only after a successful card post; one
\* event leads to at most one card post
C24_StepsInOrder ==
  /\ [](\A t \in Tasks : ev[t].kind = "request_approval" => C24_Order(t))
  /\ [][C24_WriteStep]_vars

\* a request ran through all its steps: history, card, registry, confirmation
C24_Witness ==
  \E t \in Tasks :
    /\ ev[t].kind = "request_approval"
    /\ pc[t] = "done"
    /\ AllOk(t)
    /\ C24_Confirms(t) # {}
    /\ C24_Filed(t)

\* ------------------------------------------------------------------- C25
\* the requests whose card post succeeded
C25_Posted ==
  { t \in Tasks : ev[t].kind = "request_approval" /\ \E i \in C24_Cards(t) : out[t][i].ok }

C25_Thread(t) == <<PChannel(t), PThread(t)>>

\* the confirmations the thread of request t has received, from any handler
C25_Confirmations(t) ==
  UNION { { <<u, i>> : i \in { j \in C24_Confirms(u) :
                                 /\ out[u][j].ok
                                 /\ <<out[u][j].channel, out[u][j].thread_ts>> = C25_Thread(t) } }
          : u \in Tasks }

\* C25: however request_approval handlers interleave, the registry holds
\* exactly one entry per posted card, each entry is the record (channel,
\* thread, requester, item) of the request that posted the card and each such
\* request has its entry; a thread requested once gets exactly one
\* confirmation, sent by its own request
C25_NoLostUpdate ==
  /\ DOMAIN approvals = DOMAIN cards
  /\ \A k \in DOMAIN approvals : \E t \in C25_Posted : approvals[k] = C24_Record(t)
  /\ \A t \in C25_Posted :
       Cardinality({ k \in DOMAIN approvals : approvals[k] = C24_Record(t) })
         = Cardinality({ u \in C25_Posted : C24_Record(u) = C24_Record(t) })
  /\ \A t \in C25_Posted :
       (\A u \in C25_Posted \ {t} : C25_Thread(u) # C25_Thread(t)) =>
         /\ C25_Confirmations(t) \subseteq { <<t, i>> : i \in C24_Confirms(t) }
         /\ pc[t] = "done" => Cardinality(C25_Confirmations(t)) = 1

\* two requests on different threads are in flight together: both have
\* posted their card, neither has confirmed yet, and the registry holds the
\* two records
C25_Witness ==
  \E t \in C25_Posted, u \in C25_Posted :
    /\ C25_Thread(t) # C25_Thread(u)
    /\ pc[t] = "request_approval_confirm"
    /\ pc[u] = "request_approval_confirm"
    /\ Cardinality(DOMAIN approvals) = 2

\* ------------------------------------------------------------------- C26
\* the loop is at its sleep only with a status that is not terminal, inside
\* the time window, and every check made so far was preceded by the interval;
\* the response is read only for a completed run
C26_Guard(t) ==
  /\ pc[t] = "askSla_poll" =>
       /\ qa[t].status \in RunStatuses \ TERMINAL
       /\ qa[t].elapsed <= TIMEOUT_MS
       /\ qa[t].polls * SLEEP_MS <= qa[t].elapsed
  /\ pc[t] = "askSla_list" => qa[t].status = "completed"
  /\ Len(Calls(t, "messages.list")) <= 1

\* a status check is made from the sleep only; it ends the loop exactly when
\* the status it brings is terminal or the window is exceeded, and otherwise
\* the time has advanced by the interval at least; the response is read from
\* a completed status only
C26_Check(t) ==
  LET new == NewCalls(t)
  IN /\ (new # <<>> /\ new[1].api = "runs.retrieve") =>
          /\ pc[t] = "askSla_poll"
          /\ new[1].ok =>
               /\ pc'[t] = "askSla_poll" <=>
                    (qa'[t].status \notin TERMINAL /\ qa'[t].elapsed <= TIMEOUT_MS)
               /\ pc'[t] = "askSla_poll" => qa'[t].elapsed >= qa[t].elapsed + SLEEP_MS
               /\ pc'[t] = "askSla_list" <=> qa'[t].status = "completed"
               /\ qa'[t].status \notin TERMINAL => qa'[t].elapsed >= qa[t].elapsed + SLEEP_MS
     /\ (new # <<>> /\ new[1].api = "messages.list") =>
          (pc[t] = "askSla_list" /\ qa[t].status = "completed")

\* C26: the polling loop checks the status only while it is not terminal,
\* after the fixed interval, and stops at a terminal status or when the
\* window is exceeded; only a completed status leads to reading the response;
\* when every provider call returns and time advances, every question is
\* eventually returned a text
C26_PollingTerminates ==
  /\ [](\A t \in Tasks : C26_Guard(t))
  /\ [][\A t \in Tasks : C26_Check(t)]_vars
  /\ \A t \in 1..MaxQuestions :
       (pc[t] # "idle") ~> (pc[t] = "done" /\ qa[t].answer # NoText)

\* a question went twice round the loop and was answered from a completed run
C26_Witness ==
  \E t \in Tasks :
    /\ pc[t] = "done"
    /\ Len(Calls(t, "runs.retrieve")) = 2
    /\ Len(Calls(t, "messages.list")) = 1
    /\ AllOk(t)
    /\ qa[t].answer.tmpl = A_ANSWER

\* ------------------------------------------------------------------- C27
\* what a control value carries, as a registry record
C27_Carried(value) ==
  [channel |-> JSONget(value, "channel"), thread_ts |-> JSONget(value, "thread_ts"),
   requester |-> JSONget(value, "requester"), item |-> JSONget(value, "item")]

\* the keys are the cards this process posted; the entry of a card is what
\* the card's controls carry, as the platform shows them and as every click
\* on the card delivers them
C27_Entries ==
  /\ DOMAIN approvals = DOMAIN cards
  /\ \A k \in DOMAIN approvals :
       \A i \in DOMAIN cards[k].blocks :
         \A b \in Range(cards[k].blocks[i].elements) :
           C27_Carried(b.value) = approvals[k]
  /\ \A t \in Tasks :
       ev[t].kind \in Decisions \cup {"request_more_info"} =>
         /\ ev[t].ts \in DOMAIN approvals
         /\ C27_Carried(ev[t].value) = approvals[ev[t].ts]

\* an entry is written in the step in which its card is posted, under the
\* card's identifier; no step changes or removes an entry, and the steps of
\* the approve, decline and more-info handlers leave the registry as it is
C27_Writes ==
  /\ \A k \in DOMAIN approvals : k \in DOMAIN approvals' /\ approvals'[k] = approvals[k]
  /\ \A k \in DOMAIN approvals' \ DOMAIN approvals :
       /\ k \in DOMAIN cards' \ DOMAIN cards
       /\ \E t \in Tasks :
            /\ ev[t].kind = "request_approval"
            /\ NewCalls(t) # <<>>
            /\ IsCardPost(Last(NewCalls(t)))
            /\ Last(NewCalls(t)).ok
  /\ \A t \in Tasks :
       (ev[t].kind \in Decisions \cup {"request_more_info"} /\ NewCalls(t) # <<>>) =>
         approvals' = approvals

\* C27: the registry's keys are exactly the message identifiers of the cards
\* this process posted, each mapped to the channel, thread, requester and
\* item its card's controls carry; an entry is written once, when its card
\* post has succeeded, and no handler modifies or removes it
C27_RegistryIsTheCards ==
  /\ []C27_Entries
  /\ [][C27_Writes]_vars

\* a card was decided, its controls are gone, and its entry is still there
C27_Witness ==
  \E t \in Tasks :
    /\ ev[t].kind \in Decisions
    /\ pc[t] = "done"
    /\ AllOk(t)
    /\ Len(out[t]) = 4
    /\ ~HasActions(cards[ev[t].ts].blocks)
    /\ ev[t].ts \in DOMAIN approvals
    /\ approvals[ev[t].ts] = C27_Carried(ev[t].value)

\* ------------------------------------------------------------------- C28
\* click t carries the context of mention m: its channel, its message and the
\* item classified from its text
C28_From(t, m) ==
  /\ IsMention(m)
  /\ PChannel(t) = ev[m].channel
  /\ PThread(t) = ev[m].ts
  /\ PItem(t) = parseItem(Said(m))

\* the card clicked in event d was posted by request r
C28_CardOf(d, r) ==
  /\ ev[r].kind = "request_approval"
  /\ \E i \in C24_Cards(r) :
       /\ out[r][i].ok
       /\ ev[d].value \in { c.value : c \in Controls(CENTRAL, ev[d].ts, out[r][i].blocks) }

\* what the decision and more-info handlers send to the crew
C28_ToCrew == {T_APPROVED, T_DECLINED, T_MORE_INFO, T_NOTICE}

\* C28: the context is carried unchanged through the controls: the payload
\* of "Request approval" holds the mention's channel, the mention's message
\* and the classified item; the payloads of Approve, Decline and "Ask for more
\* info" hold the same three and, as requester, the user who clicked "Request
\* approval"; verdict, checklist and notice go to that channel and thread (and
\* the notice to that user), not to the approvals channel
C28_RoundTrip ==
  \A t \in Tasks :
    /\ ev[t].kind = "request_approval" =>
         \E m \in Tasks : C28_From(t, m) /\ ev[t].channel = ev[m].channel
    /\ ev[t].kind \in Decisions \cup {"request_more_info"} =>
         \E m \in Tasks, r \in Tasks :
           /\ C28_From(t, m)
           /\ C28_CardOf(t, r)
           /\ C28_From(r, m)
           /\ PRequester(t) = ev[r].user
           /\ \A i \in DOMAIN out[t] :
                out[t][i].text.tmpl \in C28_ToCrew =>
                  /\ out[t][i].channel = ev[m].channel
                  /\ out[t][i].thread_ts = ev[m].ts
                  /\ out[t][i].channel # APPROVAL_CHANNEL
                  /\ out[t][i].text.item = parseItem(Said(m))
                  /\ out[t][i].text.tmpl = T_NOTICE => out[t][i].user = ev[r].user

\* an approver other than the requester decided, and verdict and notice went
\* to the thread of the mention, the notice to the requester
C28_Witness ==
  \E t \in Tasks, m \in Tasks, r \in Tasks :
    /\ ev[t].kind \in Decisions
    /\ C28_From(t, m)
    /\ C28_CardOf(t, r)
    /\ ev[t].user # ev[r].user
    /\ pc[t] = "done"
    /\ AllOk(t)
    /\ Len(out[t]) = 4
    /\ out[t][4].user = ev[r].user
    /\ out[t][3].thread_ts = ev[m].ts

\* ------------------------------------------------------------------- C29
\* the verdicts posted for the card with identifier k: <<event, text>>
C29_Verdicts(k) ==
  { <<t, tmpl>> \in Tasks \X {T_APPROVED, T_DECLINED} :
      /\ ev[t].kind \in Decisions
      /\ ev[t].ts = k
      /\ \E i \in DOMAIN out[t] :
           /\ out[t][i].api = "chat.postMessage"
           /\ out[t][i].ok
           /\ out[t][i].text.tmpl = tmpl }

\* C29: a decided card is decided for good: whatever Approve and Decline
\* events are delivered for one card, in whatever interleaving, at most one
\* verdict is posted to the origin thread for it
C29_AtMostOneVerdict ==
  \A k \in DOMAIN cards : Cardinality(C29_Verdicts(k)) <= 1

\* two approvers clicked the same card before its rewrite took effect, one
\* Approve and one Decline, and both verdicts are in the origin thread
C29_Witness ==
  \E k \in DOMAIN cards, t \in Tasks, u \in Tasks :
    /\ <<t, T_APPROVED>> \in C29_Verdicts(k)
    /\ <<u, T_DECLINED>> \in C29_Verdicts(k)
    /\ ev[t].user # ev[u].user
    /\ HasActions(ev[t].blocks) /\ HasActions(ev[u].blocks)
    /\ pc[t] = "done" /\ pc[u] = "done"

\* ------------------------------------------------------------------- C30
\* the handler of decision d has posted a verdict (or tried to)
C30_Verdict(d) ==
  /\ ev[d].kind \in Decisions
  /\ \E i \in DOMAIN out[d] : out[d][i].text.tmpl \in {T_APPROVED, T_DECLINED}

\* request r fetched the history of the thread of decision d and then had its
\* card for that thread accepted, the card decision d was clicked on
C30_CardFor(d, r) ==
  /\ C28_CardOf(d, r)
  /\ PChannel(r) = PChannel(d)
  /\ PThread(r) = PThread(d)
  /\ \E j \in C24_Fetches(r), i \in C24_Cards(r) :
       /\ j < i
       /\ out[r][j].ok
       /\ out[r][j].channel = PChannel(d)
       /\ out[r][j].ts = PThread(d)

\* a card post is made with an image in the history just fetched
C30_PhotoGate ==
  \A t \in Tasks :
    (\E i \in DOMAIN NewCalls(t) : IsCardPost(NewCalls(t)[i])) =>
      /\ pc[t] = "request_approval_post"
      /\ \E m \in DOMAIN loc[t].replies :
           \E f \in Range(flatMapFiles(<<loc[t].replies[m]>>)) : C1_Image(f)

\* C30: a verdict is posted to an origin thread only after a card for that
\* thread was posted, by a request that had found an image in the history of
\* that thread, and only for the click of a user on the approver allow-list
\* where one is configured; so no run reaches a verdict, approved or
\* declined, for a thread in whose history no photo was found
C30_VerdictNeedsPhotoAndApprover ==
  /\ [](\A d \in Tasks :
          C30_Verdict(d) =>
            /\ \E r \in Tasks : C30_CardFor(d, r)
            /\ APPROVER_IDS # {} => ev[d].user \in APPROVER_IDS
            /\ \A i \in DOMAIN out[d] :
                 out[d][i].text.tmpl \in {T_APPROVED, T_DECLINED} =>
                   /\ out[d][i].channel = PChannel(d)
                   /\ out[d][i].thread_ts = PThread(d))
  /\ [][C30_PhotoGate]_vars

\* a listed approver approved and the verdict is in the origin thread, for a
\* card whose request had fetched the thread
C30_Witness ==
  \E d \in Tasks, r \in Tasks :
    /\ C30_Verdict(d)
    /\ ev[d].kind = "approve_demo"
    /\ APPROVER_IDS = {"U2"}
    /\ ev[d].user = "U2"
    /\ out[d][3].ok
    /\ out[d][3].text.tmpl = T_APPROVED
    /\ C30_CardFor(d, r)

\* ------------------------------------------------------------------- C31
\* the report "I couldn't post in the approvals channel" among the calls of
\* event t
C31_Reports(t) ==
  { i \in DOMAIN out[t] :
      out[t][i].api = "chat.postMessage" /\ out[t][i].text.tmpl = T_COULD_NOT }

\* C31: the origin thread is told "I couldn't post in the approvals channel"
\* only when no card was posted for that trigger: one request_approval event
\* never leaves both a posted card with its registry entry and that report,
\* whichever call fails
C31_ReportOnlyWithoutCard ==
  \A t \in Tasks :
    (ev[t].kind = "request_approval" /\ C31_Reports(t) # {}) =>
      \A i \in C24_Cards(t) : ~out[t][i].ok

\* the card was posted and filed, the confirmation was rejected, and the
\* origin thread was told that the card could not be posted
C31_Witness ==
  \E t \in Tasks :
    /\ ev[t].kind = "request_approval"
    /\ pc[t] = "done"
    /\ \E i \in C24_Cards(t) : out[t][i].ok
    /\ C24_Filed(t)
    /\ \E i \in C24_Confirms(t) : ~out[t][i].ok
    /\ \E i \in C31_Reports(t) : out[t][i].ok /\ out[t][i].thread_ts = PThread(t)

\* ------------------------------------------------------------------- C32
\* positions of the card rewrite, the verdict and the requester notice among
\* the calls of decision t
C32_Rewrites(t) == { i \in DOMAIN out[t] : out[t][i].api = "chat.update" }
C32_Verdicts(t) ==
  { i \in DOMAIN out[t] : out[t][i].text.tmpl \in {T_APPROVED, T_DECLINED} }
C32_Notices(t)  == { i \in DOMAIN out[t] : out[t][i].text.tmpl = T_NOTICE }

C32_Order(t) ==
  /\ Cardinality(C32_Rewrites(t)) <= 1
  /\ Cardinality(C32_Verdicts(t)) <= 1
  /\ Cardinality(C32_Notices(t)) <= 1
  /\ \A i \in C32_Verdicts(t) :
       /\ \E j \in C32_Rewrites(t) : j < i /\ out[t][j].ok
       /\ ~HasActions(cards[ev[t].ts].blocks)
  /\ \A i \in C32_Notices(t) : \E j \in C32_Verdicts(t) : j < i /\ out[t][j].ok
  /\ \A j \in C32_Rewrites(t) :
       ~out[t][j].ok =>
         /\ pc[t] = "done"
         /\ C32_Verdicts(t) = {}
         /\ C32_Notices(t) = {}
         /\ cards[ev[t].ts].blocks = ev[t].blocks
         /\ HasActions(cards[ev[t].ts].blocks)

\* C32: the decision handler rewrites the card, then posts the verdict to the
\* origin thread, then notifies the requester, each step only after the one
\* before it succeeded; after a failed rewrite there is no verdict and no
\* notice and the card keeps its controls, so no verdict is posted for a card
\* whose rewrite failed
C32_RewriteThenVerdictThenNotice ==
  /\ [](\A t \in Tasks : ev[t].kind \in Decisions => C32_Order(t))
  /\ [][\A t \in Tasks :
          (\E i \in DOMAIN NewCalls(t) :
             NewCalls(t)[i].api = "chat.update" /\ ~NewCalls(t)[i].ok) =>
            cards' = cards]_vars

\* the rewrite of a card was rejected: the handler is done, nothing was sent
\* to the origin thread, and the card still shows its controls
C32_Witness ==
  \E t \in Tasks :
    /\ ev[t].kind \in Decisions
    /\ pc[t] = "done"
    /\ Len(out[t]) = 2
    /\ out[t][2].api = "chat.update"
    /\ ~out[t][2].ok
    /\ HasActions(cards[ev[t].ts].blocks)

\* ------------------------------------------------------------------- C33
C33_Actions == {"request_approval", "approve_demo", "decline_demo", "request_more_info"}

\* the first call of handler t is the acknowledgement, made once, and every
\* other call follows its acceptance
C33_AckFirst(t) ==
  out[t] # <<>> =>
    /\ out[t][1].api = "ack"
    /\ \A i \in DOMAIN out[t] : i > 1 => (out[t][i].api # "ack" /\ out[t][1].ok)

\* what the platform and the registry hold changes only in a step of a
\* handler whose acknowledgement was accepted before
C33_Effects ==
  (approvals' # approvals \/ cards' # cards) =>
    \E t \in Tasks :
      /\ ev[t].kind \in C33_Actions
      /\ out'[t] # out[t]
      /\ out[t] # <<>>
      /\ out[t][1].api = "ack"
      /\ out[t][1].ok

\* C33: in every action handler the acknowledgement of the click is the first
\* outbound call, on every path: no post, update, ephemeral notice or history
\* fetch is made and no registry entry written before the click has been
\* acknowledged
C33_AcknowledgedFirst ==
  /\ [](\A t \in Tasks : ev[t].kind \in C33_Actions => C33_AckFirst(t))
  /\ [][C33_Effects]_vars

\* the no-photo path: the click was acknowledged, the history fetched, and
\* the reminder sent, in this order
C33_Witness ==
  \E t \in Tasks :
    /\ ev[t].kind = "request_approval"
    /\ pc[t] = "done"
    /\ Len(out[t]) = 3
    /\ out[t][1].api = "ack" /\ out[t][1].ok
    /\ out[t][2].api = "conversations.replies"
    /\ out[t][3].api = "chat.postEphemeral"
    /\ out[t][3].text.tmpl = T_NEED_PHOTO

\* ------------------------------------------------------------------- C34
\* the cache is empty, or holds a session created against the collection
\* identifier stored beside it
C34_CacheSound ==
  \/ assistantCache = [id |-> 0, storeId |-> ""]
  \/ /\ assistantCache.id \in DOMAIN assistants
     /\ assistantCache.storeId # ""
     /\ assistants[assistantCache.id] = assistantCache.storeId

\* the id getAssistantId gave question t was created against the collection
\* configured when the call started
C34_Returned(t) ==
  qa[t].assistant_id # 0 =>
    /\ qa[t].assistant_id \in DOMAIN assistants
    /\ assistants[qa[t].assistant_id] = qa[t].storeId

\* the cache changes only when a creation has succeeded, to the session just
\* created and the identifier it was created against; a rejected preflight
\* or creation leaves it as it is
C34_CacheWrite ==
  /\ assistantCache' # assistantCache =>
       \E t \in Tasks :
         /\ NewCalls(t) # <<>>
         /\ Last(NewCalls(t)).api = "assistants.create"
         /\ Last(NewCalls(t)).ok
         /\ assistantCache'.id \in DOMAIN assistants' \ DOMAIN assistants
         /\ assistantCache'.id = qa'[t].assistant_id
         /\ assistantCache'.storeId = qa[t].storeId
  /\ \A t \in Tasks :
       (\E i \in DOMAIN NewCalls(t) :
          /\ NewCalls(t)[i].api \in {"vectorStores.retrieve", "assistants.create"}
          /\ ~NewCalls(t)[i].ok) =>
         (assistantCache' = assistantCache /\ assistants' = assistants)

\* C34: whatever the interleaving of questions and the changes of the
\* configured collection identifier, the session cache is empty or holds a
\* session created against the identifier stored beside it; a failed
\* preflight or creation leaves the cache unchanged; getAssistantId never
\* returns a session created against another collection than the one
\* configured when the call started
C34_CacheConsistent ==
  /\ [](C34_CacheSound /\ \A t \in Tasks : C34_Returned(t))
  /\ [][C34_CacheWrite]_vars

\* two questions in flight together each created a session, the identifier
\* was changed between their starts, and the cache holds one of the two
\* sessions with the identifier that session was created against
C34_Witness ==
  \E t \in Tasks, u \in Tasks :
    /\ t # u
    /\ Created(t) /\ Created(u)
    /\ qa[t].storeId # qa[u].storeId
    /\ Running(t) /\ Running(u)
    /\ assistantCache.id = qa[u].assistant_id
    /\ assistantCache.storeId = qa[u].storeId

====
